---------------------------- MODULE Spec2Model ----------------------------
(* PL/0 toolchain (hdz0318/pl0): the p-code virtual machine of src/src/vm.rs, *)
(* its drivers, and the compile pipeline in front of it.                     *)
EXTENDS Integers, Naturals, Sequences, FiniteSets, TLC

(***************************************************************************)
(* Bounds of the model                                                     *)
(***************************************************************************)
\* capacity of the VM stack; the program allocates vec![0; 1000] (vm.rs:29),
\* the model runs the same code on a shorter buffer so that TLC reaches its end
StackSize == 16
\* longest instruction vector loaded from an assembly file
MaxCodeLen == 2
\* number of step() calls explored per run
MaxSteps == 12
\* number of values a driver supplies per run
MaxInputs == 2
\* usize is modelled as 0 .. UsizeModulus-1 (2^64 in the build)
UsizeBits == 16
\* i64 is modelled as -(2^(IntBits-1)) .. 2^(IntBits-1)-1 (64 in the build)
IntBits == 16

UsizeModulus == 2 ^ UsizeBits
IntModulus == 2 ^ IntBits
IntMax == 2 ^ (IntBits - 1) - 1
IntMin == -(2 ^ (IntBits - 1))

(***************************************************************************)
(* types.rs: instructions and OPR sub-codes                                *)
(***************************************************************************)
Instruction(f, l, a) == [f |-> f, l |-> l, a |-> a]

OpCode == {"LIT", "OPR", "LOD", "STO", "CAL", "INT", "JMP", "JPC", "RED", "WRT"}

RET == 0
NEG == 1
ADD == 2
SUB == 3
MUL == 4
DIV == 5
ODD == 6
EQL == 8
NEQ == 9
LSS == 10
GEQ == 11
GTR == 12
LEQ == 13
OPWRT == 14
OPWRL == 15
OPRED == 16

\* the sub-codes Operator::from_i64 maps to Some(_)
Operator == {RET, NEG, ADD, SUB, MUL, DIV, ODD, EQL, NEQ, LSS, GEQ, GTR, LEQ,
             OPWRT, OPWRL, OPRED}

(***************************************************************************)
(* machine integers                                                        *)
(***************************************************************************)
\* `x as usize` for an i64 x, and wrapping usize arithmetic
AsUsize(x) == x % UsizeModulus

\* two's-complement wrap of a mathematical integer into i64
WrapInt(x) == ((x - IntMin) % IntModulus) + IntMin

InInt(x) == IntMin <= x /\ x <= IntMax

Abs(x) == IF x < 0 THEN -x ELSE x

\* i64 `/` and `%` truncate toward zero
RustDiv(x, y) ==
    IF (x < 0) = (y < 0) THEN Abs(x) \div Abs(y) ELSE -(Abs(x) \div Abs(y))

RustRem(x, y) == x - y * RustDiv(x, y)

(***************************************************************************)
(* vm.rs: the machine state                                                *)
(***************************************************************************)
VARIABLES
    code,               \* VM.code
    stack,              \* VM.stack
    p,                  \* VM.p
    b,                  \* VM.b
    t,                  \* VM.t
    i,                  \* VM.i
    output,             \* VM.output
    input_queue,        \* VM.input_queue
    state,              \* VM.state
    instruction_count,  \* VM.instruction_count
    program,            \* pl0c: the Program the parser returned
    errors,             \* pl0c: the errors SemanticAnalyzer::analyze returned
    gen_error,          \* pl0c: the Err of CodeGenerator::generate ("" for Ok)
    pc,                 \* pl0c: position of main
    fed,                \* history: every value a driver pushed, in push order
    got,                \* history: every value a RED stored, in execution order
    frames,             \* history: the CALs that have not returned, oldest first
    entries,            \* history: address and parameter count of each procedure
    asm_file,           \* the text of the assembly file pl0c wrote
    source,             \* the source text given to the Lexer
    parser,             \* the Parser, once it is constructed
    symbol_table        \* the SymbolTable, while declarations are entered

vmvars == <<code, stack, p, b, t, i, output, input_queue, state, instruction_count>>
compvars == <<program, errors, gen_error, pc>>
vars == <<code, stack, p, b, t, i, output, input_queue, state, instruction_count,
          program, errors, gen_error, pc, fed, got, frames, entries,
          asm_file, source, parser, symbol_table>>
filevars == <<asm_file, source, parser, symbol_table>>

\* no assembly file has been written, no source has been read
NoFiles == asm_file = <<>> /\ source = <<>> /\ parser = <<>> /\ symbol_table = <<>>

\* VMState
Running == <<"Running">>
Halted == <<"Halted">>
WaitingForInput == <<"WaitingForInput">>
Error(msg) == <<"Error", msg>>
\* not a VMState: step() unwound with a panic and returned nothing
Panicked(msg) == <<"panic", msg>>

IsError(s) == s[1] = "Error"
IsPanic(s) == s[1] = "panic"

StackIdx == 0 .. (StackSize - 1)

\* VM::new
VMnew(c) ==
    [code |-> c,
     stack |-> [k \in StackIdx |-> 0],
     p |-> 0, b |-> 0, t |-> 0,
     i |-> Instruction("LIT", 0, 0),
     output |-> <<>>,
     input_queue |-> <<>>,
     state |-> Running,
     instruction_count |-> 0]

\* the fields of the VM as one record
VM == [code |-> code, stack |-> stack, p |-> p, b |-> b, t |-> t, i |-> i,
       output |-> output, input_queue |-> input_queue, state |-> state,
       instruction_count |-> instruction_count]

\* a panic: the unwinding leaves no observable VM, the record keeps the
\* fields as they were when the faulting statement was reached
Panic(s, msg) == [s EXCEPT !.state = Panicked(msg)]

OOB == "index out of bounds"
SUBOVF == "attempt to subtract with overflow"

\* VM::base, -1 when an index self.stack[b] is out of bounds
RECURSIVE base(_, _, _)
base(stk, bb, l) ==
    IF l = 0 THEN bb
    ELSE IF bb \notin StackIdx THEN -1
    ELSE base(stk, AsUsize(stk[bb]), l - 1)

\* self.t -= 1 : panics with overflow checks, wraps without them
DecT(s, checked) ==
    IF s.t = 0
    THEN IF checked THEN Panic(s, SUBOVF) ELSE [s EXCEPT !.t = UsizeModulus - 1]
    ELSE [s EXCEPT !.t = s.t - 1]

\* i64 result r of +, -, *, unary - : panics with overflow checks, wraps without
Arith(s, checked, idx, r) ==
    IF InInt(r) THEN [s EXCEPT !.stack[idx] = r]
    ELSE IF checked THEN Panic(s, "arithmetic overflow")
    ELSE [s EXCEPT !.stack[idx] = WrapInt(r)]

\* the binary OPR arms without the test of the divisor: integer division by
\* zero panics
BinOpNoZeroTest(s0, checked, k) ==
    LET s == DecT(s0, checked) IN
    IF IsPanic(s.state) THEN s
    ELSE IF s.t \notin StackIdx THEN Panic(s, OOB)
    ELSE IF s.t = 0 THEN Panic(s, IF checked THEN SUBOVF ELSE OOB)
    ELSE LET x == s.stack[s.t - 1]
             y == s.stack[s.t]
             bool(c) == [s EXCEPT !.stack[s.t - 1] = IF c THEN 1 ELSE 0]
         IN CASE k = ADD -> Arith(s, checked, s.t - 1, x + y)
              [] k = SUB -> Arith(s, checked, s.t - 1, x - y)
              [] k = MUL -> Arith(s, checked, s.t - 1, x * y)
              [] k = DIV -> IF y = 0 THEN Panic(s, "attempt to divide by zero")
                            ELSE IF x = IntMin /\ y = -1
                            THEN Panic(s, "attempt to divide with overflow")
                            ELSE [s EXCEPT !.stack[s.t - 1] = RustDiv(x, y)]
              [] k = EQL -> bool(x = y)
              [] k = NEQ -> bool(x # y)
              [] k = LSS -> bool(x < y)
              [] k = GEQ -> bool(x >= y)
              [] k = GTR -> bool(x > y)
              [] k = LEQ -> bool(x <= y)

\* the binary OPR arms: self.t -= 1; self.stack[self.t - 1] (op)= self.stack[self.t]
BinOp(s0, checked, k) ==
    LET s == DecT(s0, checked) IN
    IF IsPanic(s.state) THEN s
    ELSE IF s.t \notin StackIdx THEN Panic(s, OOB)
    ELSE IF k = DIV /\ s.stack[s.t] = 0 THEN [s EXCEPT !.state = Error("Division by zero")]
    ELSE IF s.t = 0 THEN Panic(s, IF checked THEN SUBOVF ELSE OOB)
    ELSE LET x == s.stack[s.t - 1]
             y == s.stack[s.t]
             bool(c) == [s EXCEPT !.stack[s.t - 1] = IF c THEN 1 ELSE 0]
         IN CASE k = ADD -> Arith(s, checked, s.t - 1, x + y)
              [] k = SUB -> Arith(s, checked, s.t - 1, x - y)
              [] k = MUL -> Arith(s, checked, s.t - 1, x * y)
              [] k = DIV -> IF x = IntMin /\ y = -1
                            THEN Panic(s, "attempt to divide with overflow")
                            ELSE [s EXCEPT !.stack[s.t - 1] = RustDiv(x, y)]
              [] k = EQL -> bool(x = y)
              [] k = NEQ -> bool(x # y)
              [] k = LSS -> bool(x < y)
              [] k = GEQ -> bool(x >= y)
              [] k = GTR -> bool(x > y)
              [] k = LEQ -> bool(x <= y)

\* the unary OPR arms work on self.stack[self.t - 1] in place
UnOp(s, checked, k) ==
    IF s.t = 0 THEN Panic(s, IF checked THEN SUBOVF ELSE OOB)
    ELSE IF (s.t - 1) \notin StackIdx THEN Panic(s, OOB)
    ELSE LET x == s.stack[s.t - 1] IN
         IF k = NEG THEN Arith(s, checked, s.t - 1, -x)
         ELSE [s EXCEPT !.stack[s.t - 1] = RustRem(x, 2)]

\* self.stack[self.t] = v; self.t += 1
Push(s, v) ==
    IF s.t \notin StackIdx THEN Panic(s, OOB)
    ELSE [s EXCEPT !.stack[s.t] = v, !.t = s.t + 1]

\* self.t -= 1; let val = self.stack[self.t]; self.output.push(val.to_string())
PopWrite(s0, checked) ==
    LET s == DecT(s0, checked) IN
    IF IsPanic(s.state) THEN s
    ELSE IF s.t \notin StackIdx THEN Panic(s, OOB)
    ELSE [s EXCEPT !.output = Append(s.output, ToString(s.stack[s.t]))]

\* self.input_queue.pop()
QueueBack(q) == q[Len(q)]
QueuePop(q) == SubSeq(q, 1, Len(q) - 1)

\* a read that finds no input: self.p -= 1; self.state = WaitingForInput
Yield_keepP(s) == [s EXCEPT !.state = WaitingForInput]
Yield(s) == [s EXCEPT !.p = s.p - 1, !.state = WaitingForInput]

\* the match over ir.f, entered after the fetch
Exec(s, checked) ==
    LET ir == s.i IN
    CASE ir.f = "LIT" -> Push(s, ir.a)
      [] ir.f = "OPR" ->
          IF ir.a = RET THEN
              LET s1 == [s EXCEPT !.t = s.b] IN
              IF (s1.t + 2) \notin StackIdx THEN Panic(s, OOB)
              ELSE LET np == AsUsize(s1.stack[s1.t + 2])
                       nb == AsUsize(s1.stack[s1.t + 1])
                   IN [s1 EXCEPT !.p = np, !.b = nb,
                                 !.state = IF np = 0 THEN Halted ELSE s1.state]
          ELSE IF ir.a \in {NEG, ODD} THEN UnOp(s, checked, ir.a)
          ELSE IF ir.a \in {ADD, SUB, MUL, DIV, EQL, NEQ, LSS, GEQ, GTR, LEQ}
               THEN BinOp(s, checked, ir.a)
          ELSE IF ir.a = OPWRT THEN PopWrite(s, checked)
          ELSE IF ir.a = OPWRL THEN [s EXCEPT !.output = Append(s.output, "\n")]
          ELSE IF ir.a = OPRED THEN
              IF s.input_queue # <<>>
              THEN Push([s EXCEPT !.input_queue = QueuePop(s.input_queue)],
                        QueueBack(s.input_queue))
              ELSE Yield(s)
          ELSE [s EXCEPT !.state = Error("Unknown OPR " \o ToString(ir.a))]
      [] ir.f = "LOD" ->
          LET bs == base(s.stack, s.b, ir.l)
              addr == AsUsize(bs + ir.a)
          IN IF bs = -1 \/ addr \notin StackIdx \/ s.t \notin StackIdx
             THEN Panic(s, OOB)
             ELSE [s EXCEPT !.stack[s.t] = s.stack[addr], !.t = s.t + 1]
      [] ir.f = "STO" ->
          LET bs == base(s.stack, s.b, ir.l)
              addr == AsUsize(bs + ir.a)
              s1 == DecT(s, checked)
          IN IF bs = -1 THEN Panic(s, OOB)
             ELSE IF IsPanic(s1.state) THEN s1
             ELSE IF addr \notin StackIdx \/ s1.t \notin StackIdx THEN Panic(s, OOB)
             ELSE [s1 EXCEPT !.stack[addr] = s1.stack[s1.t]]
      [] ir.f = "CAL" ->
          LET bs == base(s.stack, s.b, ir.l) IN
          IF bs = -1 \/ (s.t + 2) \notin StackIdx THEN Panic(s, OOB)
          ELSE [s EXCEPT !.stack[s.t] = bs,
                         !.stack[s.t + 1] = s.b,
                         !.stack[s.t + 2] = s.p,
                         !.b = s.t,
                         !.p = AsUsize(ir.a)]
      [] ir.f = "INT" -> [s EXCEPT !.t = AsUsize(s.t + ir.a)]
      [] ir.f = "JMP" -> [s EXCEPT !.p = AsUsize(ir.a)]
      [] ir.f = "JPC" ->
          LET s1 == DecT(s, checked) IN
          IF IsPanic(s1.state) THEN s1
          ELSE IF s1.t \notin StackIdx THEN Panic(s, OOB)
          ELSE IF s1.stack[s1.t] = 0 THEN [s1 EXCEPT !.p = AsUsize(ir.a)]
          ELSE s1
      [] ir.f = "RED" ->
          IF s.input_queue # <<>>
          THEN LET val == QueueBack(s.input_queue)
                   s1 == [s EXCEPT !.input_queue = QueuePop(s.input_queue)]
                   bs == base(s.stack, s.b, ir.l)
                   addr == AsUsize(bs + ir.a)
               IN IF bs = -1 \/ addr \notin StackIdx THEN Panic(s, OOB)
                  ELSE [s1 EXCEPT !.stack[addr] = val]
          ELSE Yield(s)
      [] ir.f = "WRT" -> PopWrite(s, checked)

\* VM::step without the test of self.state
step_any_state(s, checked) ==
    IF s.p >= Len(s.code)
    THEN [s EXCEPT !.state = Error("PC out of bounds")]
    ELSE Exec([s EXCEPT !.i = s.code[s.p + 1],
                        !.p = s.p + 1,
                        !.instruction_count = s.instruction_count + 1],
              checked)

\* VM::step without self.instruction_count += 1
step_uncounted(s, checked) ==
    IF s.state # Running THEN s
    ELSE IF s.p >= Len(s.code)
    THEN [s EXCEPT !.state = Error("PC out of bounds")]
    ELSE Exec([s EXCEPT !.i = s.code[s.p + 1], !.p = s.p + 1], checked)

\* VM::step; checked = the build has overflow checks (debug profile)
step(s, checked) ==
    IF s.state # Running THEN s
    ELSE IF s.p >= Len(s.code)
    THEN [s EXCEPT !.state = Error("PC out of bounds")]
    ELSE Exec([s EXCEPT !.i = s.code[s.p + 1],
                        !.p = s.p + 1,
                        !.instruction_count = s.instruction_count + 1],
              checked)

(***************************************************************************)
(* ast.rs: the syntax tree                                                 *)
(***************************************************************************)
Number(v) == [kind |-> "Number", val |-> v]
Identifier(n) == [kind |-> "Identifier", name |-> n]
Binary(l, op, r) == [kind |-> "Binary", left |-> l, op |-> op, right |-> r]
Unary(op, e) == [kind |-> "Unary", op |-> op, expr |-> e]

Odd(e) == [kind |-> "Odd", expr |-> e]
Compare(l, op, r) == [kind |-> "Compare", left |-> l, op |-> op, right |-> r]

\* Option<Box<Statement>> is a sequence of length 0 or 1
Assignment(n, e, ln) == [kind |-> "Assignment", name |-> n, expr |-> e, line |-> ln]
Call(n, args, ln) == [kind |-> "Call", name |-> n, args |-> args, line |-> ln]
BeginEnd(ss) == [kind |-> "BeginEnd", statements |-> ss]
If(c, th, el, ln) ==
    [kind |-> "If", condition |-> c, then_stmt |-> th, else_stmt |-> el, line |-> ln]
While(c, body, ln) == [kind |-> "While", condition |-> c, body |-> body, line |-> ln]
Read(ns, ln) == [kind |-> "Read", names |-> ns, line |-> ln]
Write(es, ln) == [kind |-> "Write", exprs |-> es, line |-> ln]
Empty == [kind |-> "Empty"]

ConstDecl(n, v) == [name |-> n, value |-> v]
ProcedureDecl(n, ps, blk) == [name |-> n, params |-> ps, block |-> blk]
\* Block.scope_id is written by the analyzer and read by no code under src/;
\* the model leaves the field out
Block(cs, vs, ps, st) == [consts |-> cs, vars |-> vs, procedures |-> ps, statement |-> st]
Program(blk) == [block |-> blk]

(***************************************************************************)
(* types.rs, symbol_table.rs: symbols and the scope arena                  *)
(***************************************************************************)
Constant(v) == [tag |-> "Constant", val |-> v]
Variable(level, addr) == [tag |-> "Variable", level |-> level, addr |-> addr]
Procedure(level, addr) == [tag |-> "Procedure", level |-> level, addr |-> addr]
Symbol(n, k) == [name |-> n, kind |-> k]

\* Option::None of a parent link and of a lookup
NoParent == -1
NoSymbol == Symbol("", [tag |-> "None"])
IsSome(sym) == sym.kind.tag # "None"

\* Scope::new; the HashMap is kept as the sequence of its entries, which
\* define keeps free of duplicate names
Scope(parent) == [symbols |-> <<>>, parent |-> parent, children |-> <<>>]

\* SymbolTable::new
SymbolTable_new == [scopes |-> << Scope(NoParent) >>, current_scope_id |-> 0]

\* SymbolTable::create_scope; the id it returns is Len(st.scopes)
create_scope(st) ==
    LET new_id == Len(st.scopes)
        cur == st.current_scope_id + 1
    IN [st EXCEPT !.scopes =
            Append([@ EXCEPT ![cur].children = Append(@, new_id)],
                   Scope(st.current_scope_id))]

\* SymbolTable::enter_scope
enter_scope(st, id) ==
    IF id < Len(st.scopes) THEN [st EXCEPT !.current_scope_id = id]
    ELSE "panic: Scope ID out of bounds"

\* SymbolTable::exit_scope
exit_scope(st) ==
    LET parent == st.scopes[st.current_scope_id + 1].parent IN
    IF parent # NoParent THEN [st EXCEPT !.current_scope_id = parent]
    ELSE "panic: Cannot exit global scope"

\* HashMap::contains_key and HashMap::get
contains_key(symbols, name) == \E k \in 1 .. Len(symbols) : symbols[k].name = name
get(symbols, name) ==
    IF contains_key(symbols, name)
    THEN symbols[CHOOSE k \in 1 .. Len(symbols) : symbols[k].name = name]
    ELSE NoSymbol

\* SymbolTable::define without the test of the current scope
define_unchecked(st, symbol) ==
    [st |-> [st EXCEPT !.scopes[st.current_scope_id + 1].symbols = Append(@, symbol)],
     err |-> ""]

\* SymbolTable::define: the table after the call and the Err message ("" for Ok)
define(st, symbol) ==
    LET cur == st.current_scope_id + 1 IN
    IF contains_key(st.scopes[cur].symbols, symbol.name)
    THEN [st |-> st,
          err |-> "Symbol '" \o symbol.name \o "' already defined in current scope"]
    ELSE [st |-> [st EXCEPT !.scopes[cur].symbols = Append(@, symbol)], err |-> ""]

\* SymbolTable::resolve
RECURSIVE resolve_from(_, _, _)
resolve_from(st, current, name) ==
    LET scope == st.scopes[current + 1] IN
    IF contains_key(scope.symbols, name) THEN get(scope.symbols, name)
    ELSE IF scope.parent # NoParent THEN resolve_from(st, scope.parent, name)
    ELSE NoSymbol

resolve(st, name) == resolve_from(st, st.current_scope_id, name)

(***************************************************************************)
(* semantic.rs: SemanticAnalyzer, as the pair (symbol_table, errors)       *)
(***************************************************************************)
SemanticAnalyzer_new(st) == [symbol_table |-> st, errors |-> <<>>]

\* Rust evaluates statements in sequence; TLC evaluates an operator's
\* arguments on demand. Done(x) is TRUE and has x evaluated where it stands,
\* so that each statement's result exists before the next one starts.
Done(x) == x = x

\* if let Err(e) = self.symbol_table.define(..) { self.errors.push(e) }
sa_define(sa, symbol) ==
    LET r == define(sa.symbol_table, symbol) IN
    [symbol_table |-> r.st,
     errors |-> IF r.err = "" THEN sa.errors ELSE Append(sa.errors, r.err)]

sa_error(sa, msg) == [sa EXCEPT !.errors = Append(@, msg)]

LinePrefix(line) == "Line " \o ToString(line) \o ": "

RECURSIVE analyze_expr(_, _)
analyze_expr(sa, expr) ==
    IF ~Done(sa) THEN sa ELSE
    CASE expr.kind = "Number" -> sa
      [] expr.kind = "Identifier" ->
           IF ~IsSome(resolve(sa.symbol_table, expr.name))
           THEN sa_error(sa, "Undefined identifier '" \o expr.name \o "'")
           ELSE sa
      [] expr.kind = "Binary" -> analyze_expr(analyze_expr(sa, expr.left), expr.right)
      [] expr.kind = "Unary" -> analyze_expr(sa, expr.expr)

analyze_condition(sa, cond) ==
    IF ~Done(sa) THEN sa ELSE
    IF cond.kind = "Odd" THEN analyze_expr(sa, cond.expr)
    ELSE analyze_expr(analyze_expr(sa, cond.left), cond.right)

\* for e in exprs { self.analyze_expr(e)? }
RECURSIVE analyze_exprs(_, _, _)
analyze_exprs(sa, exprs, k) ==
    IF ~Done(sa) THEN sa ELSE
    IF k > Len(exprs) THEN sa
    ELSE analyze_exprs(analyze_expr(sa, exprs[k]), exprs, k + 1)

\* the loop of the Read arm
RECURSIVE analyze_reads(_, _, _, _)
analyze_reads(sa, names, line, k) ==
    IF ~Done(sa) THEN sa ELSE
    IF k > Len(names) THEN sa
    ELSE LET name == names[k]
             sym == resolve(sa.symbol_table, name)
             sa1 == IF ~IsSome(sym)
                    THEN sa_error(sa, LinePrefix(line) \o "Undefined variable '" \o name \o "'")
                    ELSE IF sym.kind.tag = "Constant"
                    THEN sa_error(sa, LinePrefix(line) \o "Cannot read into constant '" \o name \o "'")
                    ELSE IF sym.kind.tag = "Procedure"
                    THEN sa_error(sa, LinePrefix(line) \o "Cannot read into procedure '" \o name \o "'")
                    ELSE sa
         IN analyze_reads(sa1, names, line, k + 1)

RECURSIVE analyze_statement(_, _)
RECURSIVE analyze_statements(_, _, _)
analyze_statement(sa, stmt) ==
    IF ~Done(sa) THEN sa ELSE
    CASE stmt.kind = "Assignment" ->
           LET sym == resolve(sa.symbol_table, stmt.name)
               sa1 == IF ~IsSome(sym)
                      THEN sa_error(sa, LinePrefix(stmt.line) \o "Undefined variable '" \o stmt.name \o "'")
                      ELSE IF sym.kind.tag = "Constant"
                      THEN sa_error(sa, LinePrefix(stmt.line) \o "Cannot assign to constant '" \o stmt.name \o "'")
                      ELSE IF sym.kind.tag = "Procedure"
                      THEN sa_error(sa, LinePrefix(stmt.line) \o "Cannot assign to procedure '" \o stmt.name \o "'")
                      ELSE sa
           IN analyze_expr(sa1, stmt.expr)
      [] stmt.kind = "Call" ->
           LET sym == resolve(sa.symbol_table, stmt.name)
               sa1 == IF ~IsSome(sym)
                      THEN sa_error(sa, LinePrefix(stmt.line) \o "Undefined procedure '" \o stmt.name \o "'")
                      ELSE IF sym.kind.tag # "Procedure"
                      THEN sa_error(sa, LinePrefix(stmt.line) \o "'" \o stmt.name \o "' is not a procedure")
                      ELSE sa
           IN analyze_exprs(sa1, stmt.args, 1)
      [] stmt.kind = "BeginEnd" -> analyze_statements(sa, stmt.statements, 1)
      [] stmt.kind = "If" ->
           LET sa1 == analyze_statement(analyze_condition(sa, stmt.condition), stmt.then_stmt)
           IN IF stmt.else_stmt # <<>> THEN analyze_statement(sa1, stmt.else_stmt[1]) ELSE sa1
      [] stmt.kind = "While" ->
           analyze_statement(analyze_condition(sa, stmt.condition), stmt.body)
      [] stmt.kind = "Read" -> analyze_reads(sa, stmt.names, stmt.line, 1)
      [] stmt.kind = "Write" -> analyze_exprs(sa, stmt.exprs, 1)
      [] stmt.kind = "Empty" -> sa

analyze_statements(sa, stmts, k) ==
    IF ~Done(sa) THEN sa ELSE
    IF k > Len(stmts) THEN sa
    ELSE analyze_statements(analyze_statement(sa, stmts[k]), stmts, k + 1)

\* the three declaration loops of analyze_block
RECURSIVE sa_consts(_, _, _)
sa_consts(sa, consts, k) ==
    IF ~Done(sa) THEN sa ELSE
    IF k > Len(consts) THEN sa
    ELSE sa_consts(sa_define(sa, Symbol(consts[k].name, Constant(consts[k].value))),
                   consts, k + 1)

RECURSIVE sa_vars(_, _, _, _)
sa_vars(sa, vs, level, k) ==
    IF ~Done(sa) THEN sa ELSE
    IF k > Len(vs) THEN sa
    ELSE sa_vars(sa_define(sa, Symbol(vs[k], Variable(level, 3 + (k - 1)))),
                 vs, level, k + 1)

RECURSIVE sa_proc_names(_, _, _, _)
sa_proc_names(sa, procs, level, k) ==
    IF ~Done(sa) THEN sa ELSE
    IF k > Len(procs) THEN sa
    ELSE sa_proc_names(sa_define(sa, Symbol(procs[k].name, Procedure(level, 0))),
                       procs, level, k + 1)

\* parameter k (1-based) of n gets offset -((n - i)) with i = k - 1
RECURSIVE sa_params(_, _, _, _)
sa_params(sa, params, level, k) ==
    IF ~Done(sa) THEN sa ELSE
    IF k > Len(params) THEN sa
    ELSE sa_params(sa_define(sa, Symbol(params[k],
                                        Variable(level, -(Len(params) - (k - 1))))),
                   params, level, k + 1)

RECURSIVE analyze_block(_, _, _)
RECURSIVE sa_proc_bodies(_, _, _, _)
analyze_block(sa, block, level) ==
    IF ~Done(sa) THEN sa ELSE
    LET sa1 == sa_consts(sa, block.consts, 1)
        sa2 == sa_vars(sa1, block.vars, level, 1)
        sa3 == sa_proc_names(sa2, block.procedures, level, 1)
        sa4 == sa_proc_bodies(sa3, block.procedures, level, 1)
    IN analyze_statement(sa4, block.statement)

sa_proc_bodies(sa, procs, level, k) ==
    IF ~Done(sa) THEN sa ELSE
    IF k > Len(procs) THEN sa
    ELSE LET new_scope_id == Len(sa.symbol_table.scopes)
             sa1 == [sa EXCEPT !.symbol_table =
                        enter_scope(create_scope(sa.symbol_table), new_scope_id)]
             sa2 == sa_params(sa1, procs[k].params, level + 1, 1)
             sa3 == analyze_block(sa2, procs[k].block, level + 1)
             sa4 == [sa3 EXCEPT !.symbol_table = exit_scope(sa3.symbol_table)]
         IN sa_proc_bodies(sa4, procs, level, k + 1)

\* SemanticAnalyzer::analyze: Ok(()) iff the errors it returns are empty
analyze(sa, prog) ==
    analyze_block([sa EXCEPT !.symbol_table.current_scope_id = 0], prog.block, 0)

(***************************************************************************)
(* codegen.rs: CodeGenerator, as (code, symbol_table, level) and the Err   *)
(* a `?` has propagated (err = "" while none has); entries is a history of *)
(* the procedures the generator has defined                                *)
(***************************************************************************)
CodeGenerator_new ==
    [code |-> <<>>, symbol_table |-> SymbolTable_new, level |-> 0, err |-> "",
     entries |-> <<>>]

Failed(g) == g.err # ""

\* return Err(msg)
gen_fail(g, msg) == IF Failed(g) THEN g ELSE [g EXCEPT !.err = msg]

\* CodeGenerator::emit
emit(g, f, l, a) ==
    IF Failed(g) THEN g ELSE [g EXCEPT !.code = Append(@, Instruction(f, l, a))]

\* self.code[addr].a = self.code.len() as i64
patch_next(g, addr) ==
    IF Failed(g) THEN g ELSE [g EXCEPT !.code[addr + 1].a = Len(g.code) + 1]
patch_here(g, addr) ==
    IF Failed(g) THEN g ELSE [g EXCEPT !.code[addr + 1].a = Len(g.code)]

\* self.symbol_table.define(..)?
gen_define(g, symbol) ==
    IF Failed(g) THEN g
    ELSE LET r == define(g.symbol_table, symbol) IN
         [g EXCEPT !.symbol_table = r.st, !.err = r.err]

\* self.symbol_table.enter_scope(): codegen.rs calls the scope stack without an
\* id; on the arena of symbol_table.rs that is create_scope followed by
\* enter_scope of the new id
gen_enter_scope(g) ==
    IF Failed(g) THEN g
    ELSE [g EXCEPT !.symbol_table =
              enter_scope(create_scope(g.symbol_table), Len(g.symbol_table.scopes))]

gen_exit_scope(g) ==
    IF Failed(g) THEN g ELSE [g EXCEPT !.symbol_table = exit_scope(g.symbol_table)]

RECURSIVE generate_expr(_, _)
generate_expr(g, expr) ==
    IF Failed(g) THEN g
    ELSE CASE expr.kind = "Binary" ->
                emit(generate_expr(generate_expr(g, expr.left), expr.right),
                     "OPR", 0, expr.op)
           [] expr.kind = "Unary" -> emit(generate_expr(g, expr.expr), "OPR", 0, expr.op)
           [] expr.kind = "Number" -> emit(g, "LIT", 0, expr.val)
           [] expr.kind = "Identifier" ->
                LET sym == resolve(g.symbol_table, expr.name) IN
                IF ~IsSome(sym)
                THEN gen_fail(g, "Undefined identifier '" \o expr.name \o "'")
                ELSE IF sym.kind.tag = "Constant" THEN emit(g, "LIT", 0, sym.kind.val)
                ELSE IF sym.kind.tag = "Variable"
                THEN emit(g, "LOD", g.level - sym.kind.level, sym.kind.addr)
                ELSE gen_fail(g, "'" \o expr.name \o "' is not a value")

generate_condition(g, cond) ==
    IF cond.kind = "Odd" THEN emit(generate_expr(g, cond.expr), "OPR", 0, ODD)
    ELSE emit(generate_expr(generate_expr(g, cond.left), cond.right), "OPR", 0, cond.op)

\* for arg in args { self.generate_expr(arg)? }
RECURSIVE generate_args(_, _, _)
generate_args(g, args, k) ==
    IF k > Len(args) THEN g
    ELSE generate_args(generate_expr(g, args[k]), args, k + 1)

\* the loop of the Write arm
RECURSIVE generate_writes(_, _, _)
generate_writes(g, exprs, k) ==
    IF k > Len(exprs) THEN g
    ELSE generate_writes(emit(generate_expr(g, exprs[k]), "WRT", 0, 0), exprs, k + 1)

\* the loop of the Read arm
RECURSIVE generate_reads(_, _, _)
generate_reads(g, names, k) ==
    IF k > Len(names) \/ Failed(g) THEN g
    ELSE LET sym == resolve(g.symbol_table, names[k])
             g1 == IF ~IsSome(sym)
                   THEN gen_fail(g, "Undefined variable '" \o names[k] \o "'")
                   ELSE IF sym.kind.tag = "Variable"
                   THEN emit(g, "RED", g.level - sym.kind.level, sym.kind.addr)
                   ELSE gen_fail(g, "Cannot read into non-variable '" \o names[k] \o "'")
         IN generate_reads(g1, names, k + 1)

RECURSIVE generate_statement(_, _)
RECURSIVE generate_statements(_, _, _)
generate_statement(g, stmt) ==
    IF Failed(g) THEN g
    ELSE CASE stmt.kind = "Assignment" ->
                LET g1 == generate_expr(g, stmt.expr)
                    sym == resolve(g1.symbol_table, stmt.name)
                IN IF ~IsSome(sym)
                   THEN gen_fail(g1, "Undefined variable '" \o stmt.name \o "'")
                   ELSE IF sym.kind.tag = "Variable"
                   THEN emit(g1, "STO", g1.level - sym.kind.level, sym.kind.addr)
                   ELSE gen_fail(g1, "Cannot assign to non-variable '" \o stmt.name \o "'")
           [] stmt.kind = "Call" ->
                LET sym == resolve(g.symbol_table, stmt.name) IN
                IF ~IsSome(sym)
                THEN gen_fail(g, "Undefined procedure '" \o stmt.name \o "'")
                ELSE IF sym.kind.tag = "Procedure"
                THEN LET g1 == generate_args(g, stmt.args, 1)
                         g2 == emit(g1, "CAL", g1.level - sym.kind.level, sym.kind.addr)
                     IN IF stmt.args # <<>>
                        THEN emit(g2, "INT", 0, -Len(stmt.args))
                        ELSE g2
                ELSE gen_fail(g, "'" \o stmt.name \o "' is not a procedure")
           [] stmt.kind = "BeginEnd" -> generate_statements(g, stmt.statements, 1)
           [] stmt.kind = "If" ->
                LET g1 == generate_condition(g, stmt.condition)
                    jpc_addr == Len(g1.code)
                    g2 == generate_statement(emit(g1, "JPC", 0, 0), stmt.then_stmt)
                IN IF stmt.else_stmt # <<>>
                   THEN LET jmp_addr == Len(g2.code)
                            g3 == patch_here(emit(g2, "JMP", 0, 0), jpc_addr)
                            g4 == generate_statement(g3, stmt.else_stmt[1])
                        IN patch_here(g4, jmp_addr)
                   ELSE patch_here(g2, jpc_addr)
           [] stmt.kind = "While" ->
                LET start_addr == Len(g.code)
                    g1 == generate_condition(g, stmt.condition)
                    jpc_addr == Len(g1.code)
                    g2 == generate_statement(emit(g1, "JPC", 0, 0), stmt.body)
                IN patch_here(emit(g2, "JMP", 0, start_addr), jpc_addr)
           [] stmt.kind = "Read" -> generate_reads(g, stmt.names, 1)
           [] stmt.kind = "Write" -> generate_writes(g, stmt.exprs, 1)
           [] stmt.kind = "Empty" -> g

generate_statements(g, stmts, k) ==
    IF k > Len(stmts) THEN g
    ELSE generate_statements(generate_statement(g, stmts[k]), stmts, k + 1)

\* the declaration loops of generate_block
RECURSIVE gen_consts(_, _, _)
gen_consts(g, consts, k) ==
    IF k > Len(consts) THEN g
    ELSE gen_consts(gen_define(g, Symbol(consts[k].name, Constant(consts[k].value))),
                    consts, k + 1)

RECURSIVE gen_vars(_, _, _)
gen_vars(g, vs, k) ==
    IF k > Len(vs) THEN g
    ELSE gen_vars(gen_define(g, Symbol(vs[k], Variable(g.level, 3 + (k - 1)))),
                  vs, k + 1)

RECURSIVE gen_params(_, _, _)
gen_params(g, params, k) ==
    IF k > Len(params) THEN g
    ELSE gen_params(gen_define(g, Symbol(params[k],
                                         Variable(g.level, -(Len(params) - (k - 1))))),
                    params, k + 1)

\* let proc_addr = self.code.len()
proc_addr_past_jmp(g) == Len(g.code) + 1
proc_addr(g) == Len(g.code)

RECURSIVE generate_block(_, _)
RECURSIVE gen_procedures(_, _, _)
generate_block(g, block) ==
    IF Failed(g) THEN g
    ELSE LET jmp_addr == Len(g.code)
             g1 == emit(g, "JMP", 0, 0)
             g2 == gen_consts(g1, block.consts, 1)
             g3 == gen_vars(g2, block.vars, 1)
             g4 == gen_procedures(g3, block.procedures, 1)
             g5 == patch_here(g4, jmp_addr)
             g6 == emit(g5, "INT", 0, 3 + Len(block.vars))
             g7 == generate_statement(g6, block.statement)
         IN emit(g7, "OPR", 0, RET)

gen_procedures(g, procs, k) ==
    IF k > Len(procs) \/ Failed(g) THEN g
    ELSE LET g1 == gen_define(g, Symbol(procs[k].name, Procedure(g.level, proc_addr(g))))
             g2 == IF Failed(g1) THEN g1
                   ELSE [g1 EXCEPT !.level = g1.level + 1,
                                   !.entries = Append(@, [addr |-> proc_addr(g),
                                                          params |-> Len(procs[k].params)])]
             g3 == gen_params(gen_enter_scope(g2), procs[k].params, 1)
             g4 == gen_exit_scope(generate_block(g3, procs[k].block))
             g5 == IF Failed(g4) THEN g4 ELSE [g4 EXCEPT !.level = g4.level - 1]
         IN gen_procedures(emit(g5, "OPR", 0, RET), procs, k + 1)

\* CodeGenerator::generate: Ok(code) iff err = ""
generate(g, prog) == generate_block(g, prog.block)

(***************************************************************************)
(* the VM and its drivers as a state machine                               *)
(***************************************************************************)
\* values a user types at a prompt
NumInputVals == 2
InputVals == 1 .. NumInputVals

\* the instruction the next step() fetches, when there is one
Fetching == state = Running /\ p < Len(code)
Next_i == code[p + 1]

IsRET(ins) == ins.f = "OPR" /\ ins.a = RET

\* the fetched instruction is a read that finds input
ReadsInput ==
    /\ Fetching
    /\ Next_i.f = "RED" \/ (Next_i.f = "OPR" /\ Next_i.a = OPRED)
    /\ input_queue # <<>>

SetVM(n) ==
    /\ code' = n.code
    /\ stack' = n.stack
    /\ p' = n.p
    /\ b' = n.b
    /\ t' = n.t
    /\ i' = n.i
    /\ output' = n.output
    /\ input_queue' = n.input_queue
    /\ state' = n.state
    /\ instruction_count' = n.instruction_count

SetVMInit(c) ==
    LET n == VMnew(c) IN
    /\ code = n.code
    /\ stack = n.stack
    /\ p = n.p
    /\ b = n.b
    /\ t = n.t
    /\ i = n.i
    /\ output = n.output
    /\ input_queue = n.input_queue
    /\ state = n.state
    /\ instruction_count = n.instruction_count

\* the record frames keeps of a CAL: the frame base (T at the CAL), the three
\* linkage values it wrote and the entry it jumped to
Frame(ins) ==
    [base |-> t, sl |-> base(stack, b, ins.l), dl |-> b, ra |-> p + 1, entry |-> ins.a]

FramesAfter(n) ==
    IF ~Fetching \/ IsPanic(n.state) THEN frames
    ELSE IF Next_i.f = "CAL" THEN Append(frames, Frame(Next_i))
    ELSE IF IsRET(Next_i) /\ frames # <<>> THEN SubSeq(frames, 1, Len(frames) - 1)
    ELSE frames

\* one call of vm.step()
DoStep ==
    /\ ~IsPanic(state)
    /\ \E checked \in BOOLEAN :
         LET n == step(VM, checked) IN
           /\ SetVM(n)
           /\ got' = IF ReadsInput /\ ~IsPanic(n.state)
                     THEN Append(got, QueueBack(input_queue)) ELSE got
           /\ frames' = FramesAfter(n)
    /\ UNCHANGED <<fed, compvars, entries, filevars>>

\* a driver steps a VM it loaded from an assembly file
Step ==
    /\ instruction_count < MaxSteps
    /\ DoStep

\* VM::interpret and run_tui: a value is accepted only while the VM waits
PromptInput ==
    /\ pc = "run"
    /\ state = WaitingForInput
    /\ Len(fed) < MaxInputs
    /\ \E val \in InputVals :
         /\ input_queue' = Append(input_queue, val)
         /\ fed' = Append(fed, val)
    /\ state' = Running
    /\ UNCHANGED <<code, stack, p, b, t, i, output, instruction_count, got, frames,
                   compvars, entries, filevars>>

\* the input line of the GUIs: accepted in any state, echoed to the output
GuiInput ==
    /\ ~IsPanic(state)
    /\ Len(fed) < MaxInputs
    /\ \E val \in InputVals :
         /\ input_queue' = Append(input_queue, val)
         /\ output' = Append(output, "> " \o ToString(val))
         /\ fed' = Append(fed, val)
    /\ state' = IF state = WaitingForInput THEN Running ELSE state
    /\ UNCHANGED <<code, stack, p, b, t, i, instruction_count, got, frames, compvars,
                   entries, filevars>>

\* assembly files: instruction vectors over a small alphabet
AsmInstr ==
    {Instruction("LIT", 0, 1), Instruction("WRT", 0, 0),
     Instruction("CAL", 0, 0), Instruction("JMP", 0, 0), Instruction("JPC", 0, 2)}
    \cup {Instruction("OPR", 0, a) : a \in {RET, NEG, ADD, DIV, OPWRT, OPRED, 7}}
    \cup {Instruction("LOD", 0, a) : a \in {-1, 3}}
    \cup {Instruction("STO", l, 3) : l \in {0, 1}}
    \cup {Instruction("RED", 0, -1), Instruction("RED", 0, 3), Instruction("RED", 1, 3)}
    \cup {Instruction("INT", 0, a) : a \in {-1, StackSize}}

AsmFiles == UNION {[1 .. n -> AsmInstr] : n \in 1 .. MaxCodeLen}

\* no source program stands behind a VM that runs an assembly file
NoProgram == Program(Block(<<>>, <<>>, <<>>, Empty))

\* pl0vm, pl0vmgui: the VM is built from the instructions of an assembly file
InitVM ==
    /\ \E c \in AsmFiles : SetVMInit(c)
    /\ program = NoProgram
    /\ errors = <<>>
    /\ gen_error = ""
    /\ pc = "run"
    /\ fed = <<>>
    /\ got = <<>>
    /\ frames = <<>>
    /\ entries = <<>>
    /\ NoFiles

NextVM == Step \/ PromptInput \/ GuiInput

SpecVM == InitVM /\ [][NextVM]_vars

(***************************************************************************)
(* pl0c: analyze, generate and run a parsed program                        *)
(***************************************************************************)
\* steps interpret() takes on a compiled program
MaxRunSteps == 40

\* the programs: main declares MainVars and the siblings p and q, p declares
\* PParams and, where its body calls r, the nested procedure r
MainVarsSet == {<<>>, <<"x">>}
PParamsSet == {<<>>, <<"a">>, <<"a", "b">>}
ArgLists ==
    {<<>>, <<Number(1)>>, <<Number(1), Number(2)>>, <<Identifier("x"), Number(2)>>}

RBody == Write(<<Identifier("a")>>, 2)
PBodies ==
    {Empty,
     Assignment("a", Number(7), 3),
     Assignment("x", Identifier("a"), 3),
     Write(<<Identifier("a"), Identifier("b")>>, 3),
     Read(<<"a">>, 3),
     Call("q", <<>>, 3),
     Call("r", <<>>, 3),
     Assignment("x", Identifier("p"), 3),
     If(Compare(Identifier("a"), GTR, Number(0)),
        Call("p", <<Binary(Identifier("a"), SUB, Number(1))>>, 3), <<>>, 3)}
QBodies ==
    {Empty,
     Call("p", <<>>, 5),
     Call("p", <<Number(2)>>, 5),
     Assignment("x", Binary(Identifier("x"), ADD, Number(1)), 5)}
MainBodies ==
    {Call("p", args, 7) : args \in ArgLists}
    \cup {Call("q", <<>>, 7),
          BeginEnd(<<Read(<<"x">>, 7), Call("p", <<Identifier("x")>>, 8),
                     Write(<<Identifier("x")>>, 9)>>),
          BeginEnd(<<Call("p", <<Number(1), Number(2)>>, 7), Call("q", <<>>, 8)>>),
          BeginEnd(<<Read(<<"x">>, 7),
                     While(Compare(Identifier("x"), GTR, Number(0)),
                           BeginEnd(<<Write(<<Identifier("x")>>, 8),
                                      Assignment("x", Binary(Identifier("x"), SUB,
                                                             Number(1)), 9)>>), 8),
                     Write(<<Identifier("x")>>, 10)>>),
          If(Odd(Identifier("x")), Call("p", <<Number(1)>>, 7),
             <<Write(<<Number(0)>>, 8)>>, 7),
          While(Compare(Identifier("x"), LSS, Number(2)),
                If(Odd(Identifier("x")),
                   Assignment("x", Binary(Identifier("x"), ADD, Number(2)), 8),
                   <<Assignment("x", Binary(Identifier("x"), ADD, Number(1)), 9)>>, 8),
                7),
          Write(<<Binary(Number(1), DIV, Identifier("x"))>>, 7),
          If(Odd(Unary(NEG, Number(1))), Write(<<Number(1)>>, 7),
             <<Write(<<Number(0)>>, 8)>>, 7)}

PDecl(params, body) ==
    ProcedureDecl("p", params,
        Block(<<>>, <<>>,
              IF body = Call("r", <<>>, 3)
              THEN <<ProcedureDecl("r", <<>>, Block(<<>>, <<>>, <<>>, RBody))>>
              ELSE <<>>,
              body))
QDecl(body) == ProcedureDecl("q", <<>>, Block(<<>>, <<>>, <<>>, body))

Programs ==
    {Program(Block(<<>>, mv, <<PDecl(pp, pb), QDecl(qb)>>, mb)) :
        mv \in MainVarsSet, pp \in PParamsSet, pb \in PBodies, qb \in QBodies,
        mb \in MainBodies}

\* programs that use a name against its kind, and ones that do not: main
\* declares the constant c, the variable x and the procedure p(a), p declares
\* a variable c of its own
KindStatements ==
    {Assignment("c", Number(1), 3),
     Assignment("p", Number(1), 3),
     Assignment("x", Identifier("c"), 3),
     Assignment("x", Binary(Identifier("p"), ADD, Number(1)), 3),
     Call("x", <<>>, 3),
     Call("c", <<>>, 3),
     Call("p", <<Identifier("p")>>, 3),
     Call("p", <<Identifier("c")>>, 3),
     Read(<<"x", "c">>, 3),
     Read(<<"p">>, 3),
     Read(<<"x">>, 3),
     Write(<<Identifier("c"), Identifier("p")>>, 3),
     Write(<<Unary(NEG, Identifier("p"))>>, 3),
     If(Compare(Identifier("p"), GTR, Number(0)), Empty, <<>>, 3),
     If(Odd(Identifier("p")), Empty, <<>>, 3),
     While(Compare(Number(0), GTR, Identifier("c")), Empty, 3),
     If(Odd(Identifier("x")), Empty, <<Assignment("c", Number(1), 3)>>, 3)}

KindPBodies ==
    {Empty, Assignment("c", Identifier("a"), 2), Assignment("a", Identifier("p"), 2),
     Read(<<"c", "a">>, 2)}

KindPrograms ==
    {Program(Block(<<ConstDecl("c", 7)>>, <<"x">>,
                   <<ProcedureDecl("p", <<"a">>, Block(<<>>, <<"c">>, <<>>, pb))>>,
                   mb)) :
        pb \in KindPBodies, mb \in KindStatements}

\* main of pl0c after the parser returned the program
\* a program whose procedure p stores into its parameter the index of an
\* instruction of the main block: 15 is the LIT 2 of write(1 + 2)
StoreIndexPrograms ==
    {Program(Block(<<>>, <<>>,
                   <<ProcedureDecl("p", <<"a">>,
                                   Block(<<>>, <<>>, <<>>, Assignment("a", Number(15), 3))),
                     QDecl(Call("p", <<>>, 5))>>,
                   BeginEnd(<<Call("q", <<>>, 7),
                              Write(<<Binary(Number(1), ADD, Number(2))>>, 8)>>)))}

InitCompile ==
    /\ program \in Programs \cup KindPrograms \cup StoreIndexPrograms
    /\ SetVMInit(<<>>)
    /\ errors = <<>>
    /\ gen_error = ""
    /\ pc = "parsed"
    /\ fed = <<>>
    /\ got = <<>>
    /\ frames = <<>>
    /\ entries = <<>>
    /\ NoFiles

\* analyzer.analyze(&mut program); an Err ends the process
Analyze ==
    /\ pc = "parsed"
    /\ errors' = analyze(SemanticAnalyzer_new(SymbolTable_new), program).errors
    /\ pc' = IF errors' = <<>> THEN "analyzed" ELSE "exit"
    /\ UNCHANGED <<vmvars, program, gen_error, fed, got, frames, entries, filevars>>

\* generator.generate(&program), then VM::new(final_code)
Generate ==
    /\ pc = "analyzed"
    /\ LET g == generate(CodeGenerator_new, program) IN
         IF Failed(g)
         THEN /\ gen_error' = g.err
              /\ pc' = "generate failed"
              /\ UNCHANGED <<vmvars, entries>>
         ELSE /\ gen_error' = ""
              /\ pc' = "run"
              /\ SetVM(VMnew(g.code))
              /\ entries' = g.entries
    /\ UNCHANGED <<program, errors, fed, got, frames, filevars>>

\* vm.interpret(): the loop's call of step()
RunStep ==
    /\ pc = "run"
    /\ instruction_count < MaxRunSteps
    /\ DoStep

NextCompile == Analyze \/ Generate \/ RunStep \/ PromptInput

SpecCompile == InitCompile /\ [][NextCompile]_vars

(***************************************************************************)
(* Properties of the VM over arbitrary instruction vectors (SpecVM)        *)
(***************************************************************************)
\* the step taken is a call of step(): the drivers' inputs all extend fed
IsStep == fed' = fed /\ pc = "run"

IsRead(ins) == ins.f = "RED" \/ (ins.f = "OPR" /\ ins.a = OPRED)

\* the slot a RED L A stores to, -1 when it is no slot of the stack
RedAddr(ins) ==
    LET bs == base(stack, b, ins.l) IN
    IF bs = -1 \/ AsUsize(bs + ins.a) \notin StackIdx THEN -1
    ELSE AsUsize(bs + ins.a)

\* C1: input is consumed in FIFO order: the k-th value stored by a RED is the
\* k-th value the drivers pushed onto input_queue
C1_FifoOrder == \A k \in 1 .. Len(got) : k <= Len(fed) /\ got[k] = fed[k]

\* C2: a RED that finds the queue empty leaves P on itself, sets
\* WaitingForInput and leaves stack, T, B and output alone; the caller's input
\* leaves P alone and sets Running; the step after it executes that RED and
\* stores the value at stack[base(L)+A]
C2_RedYields ==
    (IsStep /\ Fetching /\ Next_i.f = "RED" /\ input_queue = <<>>)
        => /\ p' = p
           /\ state' = WaitingForInput
           /\ stack' = stack /\ t' = t /\ b' = b /\ output' = output
C2_InputResumes ==
    (state = WaitingForInput /\ ~IsStep)
        => /\ p' = p /\ p < Len(code) /\ IsRead(code[p + 1])
           /\ state' = Running
           /\ \E val \in InputVals : input_queue' = <<val>>
C2_RedStores ==
    (IsStep /\ Fetching /\ Next_i.f = "RED" /\ input_queue # <<>>
        /\ RedAddr(Next_i) # -1)
        => /\ i' = Next_i
           /\ p' = p + 1
           /\ stack' = [stack EXCEPT ![RedAddr(Next_i)] = QueueBack(input_queue)]
           /\ state' = Running /\ t' = t /\ b' = b
C2_RedRetries == [][C2_RedYields /\ C2_InputResumes /\ C2_RedStores]_vars

\* a one-instruction program RED 0 3 was stepped twice: it yielded, was given
\* a value and stored it on the second step
C2_Witness ==
    /\ code = <<Instruction("RED", 0, 3)>>
    /\ instruction_count = 2
    /\ p = 1
    /\ Len(fed) = 1 /\ got = fed
    /\ stack[3] = fed[1]
    /\ state = Running

\* indices of the stack the fetched instruction reaches through T
TouchedByT(ins) ==
    CASE ins.f \in {"LIT", "LOD"} -> {t}
      [] ins.f = "CAL" -> {t, t + 1, t + 2}
      [] ins.f \in {"STO", "JPC", "WRT"} -> {t - 1}
      [] ins.f = "RED" -> {}
      [] ins.f = "INT" -> {}
      [] ins.f = "JMP" -> {}
      [] ins.f = "OPR" ->
           IF ins.a \in {ADD, SUB, MUL, DIV, EQL, NEQ, LSS, GEQ, GTR, LEQ}
           THEN {t - 1, t - 2}
           ELSE IF ins.a \in {NEG, ODD, OPWRT} THEN {t - 1}
           ELSE IF ins.a = OPRED /\ input_queue # <<>> THEN {t}
           ELSE {}

\* the fetched instruction reaches a slot at or beyond the capacity; a T in
\* the upper half of usize has wrapped below 0 and is an underflow instead
Overflows ==
    /\ Fetching
    /\ t < UsizeModulus \div 2
    /\ \E k \in TouchedByT(Next_i) : k >= StackSize

\* the fetched instruction pops or works in place below slot 0
Underflows == Fetching /\ \E k \in TouchedByT(Next_i) : k < 0

\* the fetched LOD/STO/RED addresses a slot outside the stack
BadAddress ==
    /\ Fetching
    /\ Next_i.f \in {"LOD", "STO", "RED"}
    /\ Next_i.f = "RED" => input_queue # <<>>
    /\ RedAddr(Next_i) = -1

\* C3: stack overflow is a status: a step that reaches a slot at or beyond the
\* capacity of the stack ends with status Error
C3_OverflowIsError == [][(IsStep /\ Overflows) => IsError(state')]_vars

\* C4: step() is total: a fetch outside the code, a stack underflow and an
\* out-of-range LOD/STO/RED address each end with status Error
C4_StepIsTotal ==
    [][(IsStep /\ ((state = Running /\ p >= Len(code)) \/ Underflows \/ BadAddress))
          => IsError(state')]_vars

(***************************************************************************)
(* Properties of compiled programs (SpecCompile)                           *)
(***************************************************************************)
\* the most recent CAL that has not returned
TopFrame == frames[Len(frames)]

\* the step executes the fetched instruction to its end
Executes == IsStep /\ Fetching /\ ~IsPanic(state')

\* C5: status becomes Halted exactly when the RET of the outermost block
\* executes; a RET that returns from a called procedure never halts
C5_HaltsAtOutermostRet ==
    [][Executes => ((state' = Halted) <=> (IsRET(Next_i) /\ frames = <<>>))]_vars

\* C6: when the RET matching a CAL completes, T and B are what they were just
\* before that CAL; the INT 0 -n after the CAL lowers T by n
C6_RetRestores ==
    (Executes /\ IsRET(Next_i) /\ frames # <<>>)
        => t' = TopFrame.base /\ b' = TopFrame.dl
C6_ArgsPopped ==
    (Executes /\ Next_i.f = "INT" /\ Next_i.a < 0 /\ p > 0 /\ code[p].f = "CAL")
        => t' = t + Next_i.a
C6_ActivationRecord == [][C6_RetRestores /\ C6_ArgsPopped]_vars

\* the block that lexically encloses the block entered at e: the nearest block
\* before e whose opening JMP jumps past e
Encloser(e) ==
    LET cands == {e1 \in 0 .. (e - 1) : code[e1 + 1].f = "JMP" /\ code[e1 + 1].a > e}
    IN CHOOSE m \in cands : \A c \in cands : c <= m

\* base and entry of the j-th active frame, the initial frame being the 0-th
BaseOf(j) == IF j = 0 THEN 0 ELSE frames[j].base
EntryOf(j) == IF j = 0 THEN 0 ELSE frames[j].entry

\* C7: while the program runs, B is the base of the newest active frame and
\* every active frame holds at its base the base of an active frame of the
\* lexically enclosing block, then the caller's base, then the index after
\* the CAL (0, 0, 0 in the initial frame)
C7_FrameLayout ==
    (pc = "run" /\ state \in {Running, WaitingForInput}) =>
        /\ b = BaseOf(Len(frames))
        /\ stack[0] = 0 /\ stack[1] = 0 /\ stack[2] = 0
        /\ \A k \in 1 .. Len(frames) :
             LET f == frames[k] IN
             /\ stack[f.base] = f.sl
             /\ stack[f.base + 1] = f.dl
             /\ stack[f.base + 2] = f.ra
             /\ \E j \in 0 .. (k - 1) :
                  BaseOf(j) = f.sl /\ EntryOf(j) = Encloser(f.entry)

\* the number of parameters of the procedure entered at e
ParamCount(e) ==
    entries[CHOOSE k \in 1 .. Len(entries) : entries[k].addr = e].params

\* the number of arguments of the Call whose CAL is fetched: generate_statement
\* follows the CAL by INT 0 -n iff the call has n > 0 arguments
ArgCount ==
    IF p + 1 < Len(code) /\ code[p + 2].f = "INT" /\ code[p + 2].a < 0
    THEN -code[p + 2].a
    ELSE 0

\* C8: when the callee of a call starts, stack[B-(n-j)] is the j-th argument
\* (the arguments being the values pushed last before the CAL, left to
\* right); a LOD, STO or RED of a parameter address reaches the frame of a
\* procedure with that parameter, from nested procedures too
C8_ArgsAtParams ==
    (Executes /\ Next_i.f = "CAL") =>
        LET n == ParamCount(Next_i.a)
            k == ArgCount
        IN \A j \in 0 .. (n - 1) :
              /\ j < k
              /\ stack'[b' - (n - j)] = stack[t - k + j]
C8_ParamsReached ==
    (Executes /\ Next_i.f \in {"LOD", "STO", "RED"} /\ Next_i.a < 0) =>
        \E k \in 1 .. Len(frames) :
            /\ frames[k].base = base(stack, b, Next_i.l)
            /\ -Next_i.a <= ParamCount(frames[k].entry)
C8_ArgumentPassing == [][C8_ArgsAtParams /\ C8_ParamsReached]_vars

\* C9: generate returns no error for a program analyze accepted
C9_GenerateNeverFails == errors = <<>> => gen_error = ""

\* C10 as stated: the A of every CAL is the index of the INT that the JMP of
\* a procedure's block jumps to
C10_CalTargetsInt ==
    pc = "run" =>
        \A k \in 1 .. Len(code) :
            code[k].f = "CAL" =>
                /\ code[code[k].a + 1].f = "INT"
                /\ \E e \in 1 .. Len(entries) :
                      code[k].a = code[entries[e].addr + 1].a

\* C10, amended: the A of every CAL is the index of the JMP that opens the
\* block of a procedure, and that JMP jumps forward to the INT of the block
C10_CalTargetsBlockJmp ==
    pc = "run" =>
        \A k \in 1 .. Len(code) :
            code[k].f = "CAL" =>
                LET A == code[k].a IN
                /\ \E e \in 1 .. Len(entries) : entries[e].addr = A
                /\ code[A + 1].f = "JMP"
                /\ code[A + 1].a > A
                /\ code[code[A + 1].a + 1].f = "INT"

\* a CAL was executed, the JMP at its target was executed next and P is now
\* on the INT of the called block
C10_Witness ==
    /\ pc = "run"
    /\ frames # <<>>
    /\ i = code[TopFrame.entry + 1]
    /\ i.f = "JMP"
    /\ p = i.a
    /\ code[p + 1].f = "INT"

\* the number of instructions generate_expr, generate_condition and
\* generate_statement emit for a construct
RECURSIVE ExprLen(_)
ExprLen(e) ==
    CASE e.kind = "Binary" -> ExprLen(e.left) + ExprLen(e.right) + 1
      [] e.kind = "Unary" -> ExprLen(e.expr) + 1
      [] OTHER -> 1

CondLen(c) ==
    IF c.kind = "Odd" THEN ExprLen(c.expr) + 1
    ELSE ExprLen(c.left) + ExprLen(c.right) + 1

RECURSIVE ExprsLen(_, _)
ExprsLen(es, extra) ==
    IF es = <<>> THEN 0 ELSE ExprLen(Head(es)) + extra + ExprsLen(Tail(es), extra)

RECURSIVE StmtLen(_)
RECURSIVE StmtsLen(_)
StmtLen(st) ==
    CASE st.kind = "Assignment" -> ExprLen(st.expr) + 1
      [] st.kind = "Call" -> ExprsLen(st.args, 0) + 1 + (IF st.args # <<>> THEN 1 ELSE 0)
      [] st.kind = "BeginEnd" -> StmtsLen(st.statements)
      [] st.kind = "If" ->
           CondLen(st.condition) + 1 + StmtLen(st.then_stmt)
           + (IF st.else_stmt # <<>> THEN 1 + StmtLen(st.else_stmt[1]) ELSE 0)
      [] st.kind = "While" -> CondLen(st.condition) + 1 + StmtLen(st.body) + 1
      [] st.kind = "Read" -> Len(st.names)
      [] st.kind = "Write" -> ExprsLen(st.exprs, 1)
      [] st.kind = "Empty" -> 0

StmtsLen(ss) == IF ss = <<>> THEN 0 ELSE StmtLen(Head(ss)) + StmtsLen(Tail(ss))

\* the number of instructions generate_block emits for a block, and for the
\* procedures of a block with the RET that follows each
RECURSIVE BlockLen(_)
RECURSIVE ProcsLen(_)
BlockLen(blk) == 1 + ProcsLen(blk.procedures) + 1 + StmtLen(blk.statement) + 1

ProcsLen(ps) == IF ps = <<>> THEN 0 ELSE BlockLen(Head(ps).block) + 1 + ProcsLen(Tail(ps))

\* the instruction at index k of the vector c (indices from 0)
At(c, k) == c[k + 1]

\* the jumps of the statement whose code starts at index at of c have the
\* targets their construct defines
RECURSIVE StmtPatched(_, _, _)
RECURSIVE StmtsPatched(_, _, _)
StmtPatched(c, st, at) ==
    CASE st.kind = "If" ->
           LET jpc == at + CondLen(st.condition)
               then_end == jpc + 1 + StmtLen(st.then_stmt)
           IN /\ At(c, jpc).f = "JPC"
              /\ StmtPatched(c, st.then_stmt, jpc + 1)
              /\ IF st.else_stmt = <<>>
                 THEN At(c, jpc).a = then_end
                 ELSE /\ At(c, then_end).f = "JMP"
                      /\ At(c, jpc).a = then_end + 1
                      /\ At(c, then_end).a = then_end + 1 + StmtLen(st.else_stmt[1])
                      /\ StmtPatched(c, st.else_stmt[1], then_end + 1)
      [] st.kind = "While" ->
           LET jpc == at + CondLen(st.condition)
               back == jpc + 1 + StmtLen(st.body)
           IN /\ At(c, jpc).f = "JPC"
              /\ At(c, back).f = "JMP"
              /\ At(c, back).a = at
              /\ At(c, jpc).a = back + 1
              /\ StmtPatched(c, st.body, jpc + 1)
      [] st.kind = "BeginEnd" -> StmtsPatched(c, st.statements, at)
      [] OTHER -> TRUE

StmtsPatched(c, ss, at) ==
    \/ ss = <<>>
    \/ /\ StmtPatched(c, Head(ss), at)
       /\ StmtsPatched(c, Tail(ss), at + StmtLen(Head(ss)))

\* the JMP of the block whose code starts at index at of c jumps to the INT of
\* the block, and so on through its procedures and its statement
RECURSIVE BlockPatched(_, _, _)
RECURSIVE ProcsPatched(_, _, _)
BlockPatched(c, blk, at) ==
    LET body == at + 1 + ProcsLen(blk.procedures) IN
    /\ At(c, at).f = "JMP"
    /\ At(c, at).a = body
    /\ At(c, body).f = "INT"
    /\ ProcsPatched(c, blk.procedures, at + 1)
    /\ StmtPatched(c, blk.statement, body + 1)

ProcsPatched(c, ps, at) ==
    \/ ps = <<>>
    \/ /\ BlockPatched(c, Head(ps).block, at)
       /\ ProcsPatched(c, Tail(ps), at + BlockLen(Head(ps).block) + 1)

\* C11: in the generated vector every JMP and JPC has a target within
\* 0 .. |code|, and it is the position its construct defines: the block's INT,
\* the end of the then-branch or the start of the else-branch, the end of the
\* else-branch, the instruction after the back JMP, the start of the condition
C11_Backpatched ==
    pc = "run" =>
        /\ Len(code) = BlockLen(program.block)
        /\ \A k \in 1 .. Len(code) :
              code[k].f \in {"JMP", "JPC"} => code[k].a \in 0 .. Len(code)
        /\ BlockPatched(code, program.block, 0)

\* a while loop of a compiled program has ended: its JPC jumped to the
\* instruction after the back JMP
C11_Witness ==
    /\ pc = "run"
    /\ i.f = "JPC"
    /\ p = i.a
    /\ p > 0
    /\ code[p].f = "JMP"
    /\ code[p].a < p

(***************************************************************************)
(* optimizer.rs: the optimizer of the syntax tree                          *)
(***************************************************************************)
\* Option<bool>: a sequence of length 0 or 1
None == <<>>
Some(v) == <<v>>

IsNumber(e, v) == e.kind = "Number" /\ e.val = v

RECURSIVE optimize_expr(_)
optimize_expr(e) ==
    CASE e.kind = "Binary" ->
           LET l == optimize_expr(e.left)
               r == optimize_expr(e.right)
               op == e.op
               same == Binary(l, op, r)
           IN IF l.kind = "Number" /\ r.kind = "Number"
              THEN CASE op = ADD -> Number(WrapInt(l.val + r.val))
                     [] op = SUB -> Number(WrapInt(l.val - r.val))
                     [] op = MUL -> Number(WrapInt(l.val * r.val))
                     [] op = DIV -> IF r.val # 0 THEN Number(WrapInt(RustDiv(l.val, r.val)))
                                    ELSE same
                     [] OTHER -> same
              ELSE CASE op = ADD /\ IsNumber(r, 0) -> l
                     [] op = ADD /\ IsNumber(l, 0) -> r
                     [] op = SUB /\ IsNumber(r, 0) -> l
                     [] op = MUL /\ IsNumber(r, 1) -> l
                     [] op = MUL /\ IsNumber(l, 1) -> r
                     [] op = MUL /\ IsNumber(r, 0) -> Number(0)
                     [] op = MUL /\ IsNumber(l, 0) -> Number(0)
                     [] op = DIV /\ IsNumber(r, 1) -> l
                     [] OTHER -> same
      [] e.kind = "Unary" ->
           LET inner == optimize_expr(e.expr) IN
           IF inner.kind = "Number" /\ e.op = NEG THEN Number(WrapInt(-inner.val))
           ELSE Unary(e.op, inner)
      [] OTHER -> e

optimize_exprs(es) == [k \in 1 .. Len(es) |-> optimize_expr(es[k])]

evaluate_condition(cond) ==
    IF cond.kind = "Odd"
    THEN IF cond.expr.kind = "Number" THEN Some(RustRem(cond.expr.val, 2) # 0) ELSE None
    ELSE IF cond.left.kind = "Number" /\ cond.right.kind = "Number"
         THEN LET l == cond.left.val
                  r == cond.right.val
              IN CASE cond.op = EQL -> Some(l = r)
                   [] cond.op = NEQ -> Some(l # r)
                   [] cond.op = LSS -> Some(l < r)
                   [] cond.op = LEQ -> Some(l <= r)
                   [] cond.op = GTR -> Some(l > r)
                   [] cond.op = GEQ -> Some(l >= r)
                   [] OTHER -> None
         ELSE None

optimize_condition(cond) ==
    IF cond.kind = "Odd" THEN Odd(optimize_expr(cond.expr))
    ELSE Compare(optimize_expr(cond.left), cond.op, optimize_expr(cond.right))

RECURSIVE expr_uses_var(_, _)
expr_uses_var(e, var) ==
    CASE e.kind = "Binary" -> expr_uses_var(e.left, var) \/ expr_uses_var(e.right, var)
      [] e.kind = "Unary" -> expr_uses_var(e.expr, var)
      [] e.kind = "Identifier" -> e.name = var
      [] OTHER -> FALSE

\* available_exprs.retain(|k, _| !expr_uses_var(k, name)) for each name
retain(available, names) ==
    {a \in available : \A k \in 1 .. Len(names) : ~expr_uses_var(a.expr, names[k])}

\* the loop of optimize_block_dag from statement k on; available_exprs is a set
\* of entries [expr, name], one for a key
RECURSIVE dag_from(_, _, _)
dag_from(statements, k, available_exprs) ==
    IF k > Len(statements) THEN statements
    ELSE LET stmt == statements[k] IN
         CASE stmt.kind = "Assignment" ->
                LET found == {a \in available_exprs : a.expr = stmt.expr}
                    replaced == found # {}
                    expr == IF replaced THEN Identifier((CHOOSE a \in found : TRUE).name)
                            ELSE stmt.expr
                    kept == retain(available_exprs, <<stmt.name>>)
                    added == IF /\ ~replaced
                                /\ expr.kind \notin {"Number", "Identifier"}
                                /\ ~expr_uses_var(expr, stmt.name)
                             THEN kept \cup {[expr |-> expr, name |-> stmt.name]}
                             ELSE kept
                IN dag_from([statements EXCEPT ![k].expr = expr], k + 1, added)
           [] stmt.kind = "Read" ->
                dag_from(statements, k + 1, retain(available_exprs, stmt.names))
           [] stmt.kind \in {"Call", "If", "While", "BeginEnd"} ->
                dag_from(statements, k + 1, {})
           [] OTHER -> dag_from(statements, k + 1, available_exprs)

optimize_block_dag(statements) == dag_from(statements, 1, {})

RECURSIVE expr_depends_on(_, _)
expr_depends_on(e, vs) ==
    CASE e.kind = "Binary" -> expr_depends_on(e.left, vs) \/ expr_depends_on(e.right, vs)
      [] e.kind = "Unary" -> expr_depends_on(e.expr, vs)
      [] e.kind = "Identifier" -> e.name \in vs
      [] OTHER -> FALSE

RECURSIVE collect_modified_vars(_)
collect_modified_vars(stmt) ==
    CASE stmt.kind = "Assignment" -> {stmt.name}
      [] stmt.kind = "Read" -> {stmt.names[k] : k \in 1 .. Len(stmt.names)}
      [] stmt.kind = "BeginEnd" ->
           UNION {collect_modified_vars(stmt.statements[k]) :
                     k \in 1 .. Len(stmt.statements)}
      [] stmt.kind = "If" ->
           collect_modified_vars(stmt.then_stmt)
           \cup (IF stmt.else_stmt # <<>> THEN collect_modified_vars(stmt.else_stmt[1])
                 ELSE {})
      [] stmt.kind = "While" -> collect_modified_vars(stmt.body)
      [] OTHER -> {}

\* the test of try_licm: an assignment whose expression reads no variable
\* the loop modifies
hoist(s, modified) == s.kind = "Assignment" /\ ~expr_depends_on(s.expr, modified)

\* try_licm, called on a While
try_licm(stmt) ==
    LET body == stmt.body
        modified == collect_modified_vars(body)
        Hoisted(s) == hoist(s, modified)
        Stays(s) == ~hoist(s, modified)
        invariant_stmts ==
            CASE body.kind = "BeginEnd" -> SelectSeq(body.statements, Hoisted)
              [] body.kind = "Assignment" -> IF Hoisted(body) THEN <<body>> ELSE <<>>
              [] OTHER -> <<>>
        new_body ==
            CASE body.kind = "BeginEnd" -> BeginEnd(SelectSeq(body.statements, Stays))
              [] body.kind = "Assignment" -> IF Hoisted(body) THEN Empty ELSE body
              [] OTHER -> body
    IN IF invariant_stmts # <<>>
       THEN BeginEnd(Append(invariant_stmts, [stmt EXCEPT !.body = new_body]))
       ELSE stmt

NotEmpty(s) == s.kind # "Empty"

RECURSIVE optimize_statement(_)
optimize_statement(stmt) ==
    CASE stmt.kind = "Assignment" -> [stmt EXCEPT !.expr = optimize_expr(@)]
      [] stmt.kind = "Call" -> [stmt EXCEPT !.args = optimize_exprs(@)]
      [] stmt.kind = "BeginEnd" ->
           LET children == [k \in 1 .. Len(stmt.statements) |->
                               optimize_statement(stmt.statements[k])]
           IN BeginEnd(SelectSeq(optimize_block_dag(children), NotEmpty))
      [] stmt.kind = "If" ->
           LET condition == optimize_condition(stmt.condition)
               then_stmt == optimize_statement(stmt.then_stmt)
               else_stmt == [k \in 1 .. Len(stmt.else_stmt) |->
                                optimize_statement(stmt.else_stmt[k])]
               val == evaluate_condition(condition)
           IN IF val # None
              THEN IF val[1] THEN then_stmt
                   ELSE IF else_stmt # <<>> THEN else_stmt[1]
                   ELSE Empty
              ELSE [stmt EXCEPT !.condition = condition,
                                !.then_stmt = then_stmt,
                                !.else_stmt = else_stmt]
      [] stmt.kind = "While" ->
           LET condition == optimize_condition(stmt.condition)
               body == optimize_statement(stmt.body)
               val == evaluate_condition(condition)
           IN IF val = Some(FALSE) THEN Empty
              ELSE try_licm([stmt EXCEPT !.condition = condition, !.body = body])
      [] stmt.kind = "Write" -> [stmt EXCEPT !.exprs = optimize_exprs(@)]
      [] OTHER -> stmt

RECURSIVE optimize_block(_)
optimize_block(block) ==
    [block EXCEPT
        !.procedures = [k \in 1 .. Len(block.procedures) |->
                           [block.procedures[k] EXCEPT !.block = optimize_block(@)]],
        !.statement = optimize_statement(@)]

optimize_ast(prog) == [prog EXCEPT !.block = optimize_block(@)]

(***************************************************************************)
(* optimizer.rs: the optimizer of the instruction vector                   *)
(***************************************************************************)
\* step 1 of optimize_pass: the targets of the JMP and JPC of the vector
jump_targets(c) ==
    {AsUsize(c[k].a) : k \in {j \in 1 .. Len(c) : c[j].f \in {"JMP", "JPC"}}}

\* constant folding: Some(r) for the operators that fold
fold(op, val_a, val_b) ==
    CASE op = ADD -> Some(WrapInt(val_a + val_b))
      [] op = SUB -> Some(WrapInt(val_a - val_b))
      [] op = MUL -> Some(WrapInt(val_a * val_b))
      [] op = DIV /\ val_b # 0 -> Some(WrapInt(RustDiv(val_a, val_b)))
      [] op = EQL -> Some(IF val_a = val_b THEN 1 ELSE 0)
      [] op = NEQ -> Some(IF val_a # val_b THEN 1 ELSE 0)
      [] op = LSS -> Some(IF val_a < val_b THEN 1 ELSE 0)
      [] op = LEQ -> Some(IF val_a <= val_b THEN 1 ELSE 0)
      [] op = GTR -> Some(IF val_a > val_b THEN 1 ELSE 0)
      [] op = GEQ -> Some(IF val_a >= val_b THEN 1 ELSE 0)
      [] OTHER -> None

\* new_code.pop()
pop(s) == SubSeq(s, 1, Len(s) - 1)

\* step 2 of optimize_pass from index idx on; new_code holds the pairs
\* (instruction, index it came from)
RECURSIVE pass_from(_, _, _, _, _)
pass_from(c, targets, idx, new_code, changed) ==
    IF idx >= Len(c) THEN [new_code |-> new_code, changed |-> changed]
    ELSE
      LET instr == c[idx + 1]
          n == Len(new_code)
          target == AsUsize(instr.a)
          jump_to_jump ==
              /\ instr.f = "JMP"
              /\ target < Len(c)
              /\ c[target + 1].f = "JMP"
          after_lit ==
              /\ ~jump_to_jump
              /\ instr.f = "OPR"
              /\ instr.a \in Operator
              /\ n >= 1
              /\ new_code[n].instr.f = "LIT"
          val == new_code[n].instr.a
          algebraic ==
              /\ after_lit
              /\ idx \notin targets
              /\ \/ instr.a = ADD /\ val = 0
                 \/ instr.a = SUB /\ val = 0
                 \/ instr.a = MUL /\ val = 1
                 \/ instr.a = DIV /\ val = 1
          res == fold(instr.a, new_code[n - 1].instr.a, val)
          folding ==
              /\ after_lit
              /\ ~algebraic
              /\ n >= 2
              /\ new_code[n - 1].instr.f = "LIT"
              /\ idx \notin targets
              /\ new_code[n].orig \notin targets
              /\ res # None
          load_store ==
              /\ ~jump_to_jump
              /\ ~algebraic
              /\ ~folding
              /\ instr.f = "STO"
              /\ n >= 1
              /\ new_code[n].instr.f = "LOD"
              /\ new_code[n].instr.l = instr.l
              /\ new_code[n].instr.a = instr.a
              /\ idx \notin targets
      IN CASE jump_to_jump ->
                pass_from(c, targets, idx + 1,
                          Append(new_code,
                                 [instr |-> Instruction("JMP", 0, c[target + 1].a),
                                  orig |-> idx]),
                          TRUE)
           [] algebraic -> pass_from(c, targets, idx + 1, pop(new_code), TRUE)
           [] folding ->
                pass_from(c, targets, idx + 1,
                          Append(pop(pop(new_code)),
                                 [instr |-> Instruction("LIT", 0, res[1]),
                                  orig |-> new_code[n - 1].orig]),
                          TRUE)
           [] load_store -> pass_from(c, targets, idx + 1, pop(new_code), TRUE)
           [] OTHER ->
                pass_from(c, targets, idx + 1,
                          Append(new_code, [instr |-> instr, orig |-> idx]), changed)

\* step 3 of optimize_pass: map[k] for an index k of the old vector, the new
\* index of the instruction or of the next one that was kept
map_index(new_code, k) ==
    LET at_or_after == {j \in 1 .. Len(new_code) : new_code[j].orig >= k} IN
    IF at_or_after = {} THEN Len(new_code)
    ELSE (CHOOSE j \in at_or_after : \A j2 \in at_or_after : j <= j2) - 1

\* map[instr.a as usize] indexes a Vec of code.len() elements
fix_panics(c, new_code) ==
    \E j \in 1 .. Len(new_code) :
        /\ new_code[j].instr.f \in {"JMP", "JPC"}
        /\ AsUsize(new_code[j].instr.a) >= Len(c)

\* step 4 of optimize_pass: CAL keeps its A
fix_jumps(new_code) ==
    [j \in 1 .. Len(new_code) |->
        IF new_code[j].instr.f \in {"JMP", "JPC"}
        THEN [new_code[j].instr EXCEPT !.a = map_index(new_code, AsUsize(@))]
        ELSE new_code[j].instr]

\* optimize_pass: (code, changed), or a panic of the indexing in step 4
optimize_pass(c) ==
    LET r == pass_from(c, jump_targets(c), 0, <<>>, FALSE) IN
    IF ~r.changed THEN [code |-> c, changed |-> FALSE, panic |-> FALSE]
    ELSE IF fix_panics(c, r.new_code) THEN [code |-> c, changed |-> TRUE, panic |-> TRUE]
    ELSE [code |-> fix_jumps(r.new_code), changed |-> TRUE, panic |-> FALSE]

\* the loop of optimize: passes until one changes nothing. A pass is a
\* function of the vector it is given, so a pass that reports a change and
\* returns a vector the loop has already had repeats for ever
RECURSIVE optimize_loop(_, _)
optimize_loop(c, seen) ==
    LET r == optimize_pass(c) IN
    IF r.panic THEN [code |-> c, status |-> "panic"]
    ELSE IF ~r.changed THEN [code |-> c, status |-> "ok"]
    ELSE IF r.code \in seen \cup {c} THEN [code |-> c, status |-> "diverges"]
    ELSE optimize_loop(r.code, seen \cup {c})

optimize(c) == optimize_loop(c, {})

(***************************************************************************)
(* tests/integration_test.rs: parse, optimize_ast, generate, optimize, run *)
(***************************************************************************)
X == Identifier("x")
Y == Identifier("y")
Z == Identifier("z")

XMinus1 == Assignment("x", Binary(X, SUB, Number(1)), 5)
XPlus1 == Binary(X, ADD, Number(1))
YIs5 == Assignment("y", Number(5), 4)

\* while x > 1 do begin ... end
Loop(ss) == While(Compare(X, GTR, Number(1)), BeginEnd(ss), 3)

\* the statements between read(x) and the final writes
OptChunks ==
    {<<Loop(<<YIs5, XMinus1>>)>>,
     <<Loop(<<Write(<<Y>>, 4), YIs5, XMinus1>>)>>,
     <<Loop(<<Call("q", <<>>, 4), YIs5, XMinus1>>)>>,
     <<Loop(<<YIs5, Assignment("z", Binary(Y, ADD, Number(1)), 4), XMinus1>>)>>,
     <<Loop(<<Assignment("y", Binary(Y, ADD, X), 4), XMinus1>>)>>,
     <<Loop(<<XMinus1>>)>>,
     <<While(Compare(X, GTR, Number(1)), XMinus1, 3)>>,
     <<While(Compare(Number(0), GTR, Number(1)), YIs5, 3)>>,
     <<Assignment("y", XPlus1, 3), Assignment("y", Number(7), 4),
       Assignment("z", XPlus1, 5)>>,
     <<Assignment("y", XPlus1, 3), Assignment("z", XPlus1, 4)>>,
     <<Assignment("y", XPlus1, 3), Assignment("x", Number(2), 4),
       Assignment("z", XPlus1, 5)>>,
     <<Assignment("y", XPlus1, 3), Read(<<"x">>, 4), Assignment("z", XPlus1, 5)>>,
     <<Assignment("y", Binary(Z, ADD, Number(1)), 3), Read(<<"x">>, 4),
       Assignment("x", Binary(Z, ADD, Number(1)), 5)>>,
     <<Assignment("y", XPlus1, 3), Read(<<"y">>, 4), Assignment("z", XPlus1, 5)>>,
     <<Assignment("y", Binary(Binary(Number(1), ADD, Number(2)), MUL, X), 3),
       Assignment("z", Binary(Binary(X, MUL, Number(1)), ADD, Number(0)), 4)>>,
     <<Assignment("y", Unary(NEG, Number(3)), 3),
       If(Compare(Number(1), EQL, Number(1)), Assignment("z", Number(3), 4),
          <<Assignment("z", Number(4), 4)>>, 4)>>,
     <<Assignment("z", Binary(Number(6), DIV, Number(0)), 3)>>,
     <<If(Odd(X), Assignment("y", Binary(X, MUL, Number(0)), 3), <<>>, 3)>>}

OptPBodies == {Assignment("x", X, 1), Write(<<X>>, 1)}
OptQBodies == {Assignment("x", XPlus1, 2), Write(<<Y>>, 2)}
OptTails == {<<>>, <<Call("q", <<>>, 6)>>}

OptMain(chunk, tail) ==
    BeginEnd(<<Read(<<"x">>, 3)>> \o chunk \o tail
             \o <<Write(<<Y>>, 7), Write(<<Z>>, 7), Write(<<X>>, 7)>>)

OptProcedure(n, body) == ProcedureDecl(n, <<>>, Block(<<>>, <<>>, <<>>, body))

OptPrograms ==
    {Program(Block(<<>>, <<"x", "y", "z">>,
                   <<OptProcedure("p", pb), OptProcedure("q", qb)>>,
                   OptMain(chunk, tail))) :
        chunk \in OptChunks, tail \in OptTails, pb \in OptPBodies, qb \in OptQBodies}

\* the inputs of a test case, in the order the program is to read them
TestInputs == UNION {[1 .. n -> InputVals] : n \in 0 .. MaxInputs}

\* input.reverse()
reverse(s) == [k \in 1 .. Len(s) |-> s[Len(s) + 1 - k]]

InitOptimize ==
    /\ program \in OptPrograms
    /\ SetVMInit(<<>>)
    /\ errors = <<>>
    /\ gen_error = ""
    /\ pc = "parsed"
    /\ fed = <<>>
    /\ got = <<>>
    /\ frames = <<>>
    /\ entries = <<>>
    /\ NoFiles

\* optimize_ast(&mut program)
OptimizeAst ==
    /\ pc = "parsed"
    /\ program' = optimize_ast(program)
    /\ pc' = "optimized"
    /\ UNCHANGED <<vmvars, errors, gen_error, fed, got, frames, entries, filevars>>

\* generator.generate(&program).expect("Code generation failed")
GenerateOptimized ==
    /\ pc = "optimized"
    /\ LET g == generate(CodeGenerator_new, program) IN
         IF Failed(g)
         THEN /\ gen_error' = g.err
              /\ pc' = "generate failed"
              /\ UNCHANGED <<vmvars, entries>>
         ELSE /\ gen_error' = ""
              /\ pc' = "generated"
              /\ code' = g.code
              /\ entries' = g.entries
              /\ UNCHANGED <<stack, p, b, t, i, output, input_queue, state,
                             instruction_count>>
    /\ UNCHANGED <<program, errors, fed, got, frames, filevars>>

\* optimize(code), VM::new(code), vm.input_queue = input
OptimizeCode ==
    /\ pc = "generated"
    /\ LET r == optimize(code) IN
         IF r.status # "ok"
         THEN /\ pc' = "optimize failed"
              /\ UNCHANGED <<vmvars, fed>>
         ELSE \E input \in TestInputs :
                /\ pc' = "run"
                /\ SetVM([VMnew(r.code) EXCEPT !.input_queue = reverse(input)])
                /\ fed' = input
    /\ UNCHANGED <<program, errors, gen_error, got, frames, entries, filevars>>

NextOptimize == OptimizeAst \/ GenerateOptimized \/ OptimizeCode \/ RunStep

SpecOptimize == InitOptimize /\ [][NextOptimize]_vars

\* the loop of the test: step() while the VM is Running
RECURSIVE run(_, _, _)
run(s, steps, checked) ==
    IF steps = 0 \/ s.state # Running THEN s
    ELSE run(step(s, checked), steps - 1, checked)

\* what a run of the vector c on the inputs shows: the output and the status
\* the VM stops in, when it stops within MaxRunSteps steps
Outcome(c, input, checked) ==
    LET s == run([VMnew(c) EXCEPT !.input_queue = reverse(input)], MaxRunSteps, checked)
    IN [output |-> s.output, status |-> s.state[1], stopped |-> s.state # Running]

SameBehaviour(c1, c2) ==
    \A input \in TestInputs, checked \in BOOLEAN :
        LET o1 == Outcome(c1, input, checked)
            o2 == Outcome(c2, input, checked)
        IN o1.stopped /\ o2.stopped => o1 = o2

SameProgramBehaviour(p1, p2) ==
    LET g1 == generate(CodeGenerator_new, p1)
        g2 == generate(CodeGenerator_new, p2)
    IN /\ Failed(g1) = Failed(g2)
       /\ ~Failed(g1) => SameBehaviour(g1.code, g2.code)

IsOptimizeAst == pc = "parsed" /\ pc' = "optimized"
IsOptimizeCode == pc = "generated" /\ pc' = "run"

\* C12: the program optimize_ast returns produces, on every input sequence,
\* the output and the final status of the program it was given
C12_AstOptimizerPreserves ==
    [][IsOptimizeAst => SameProgramBehaviour(program, program')]_vars

\* C13: optimize_ast applied to its own result returns it unchanged
C13_AstOptimizerIdempotent ==
    [][IsOptimizeAst => optimize_ast(program') = program']_vars

\* the statement is, or contains, a read, a write or a call
RECURSIVE DoesIO(_)
DoesIO(stmt) ==
    CASE stmt.kind \in {"Read", "Write", "Call"} -> TRUE
      [] stmt.kind = "BeginEnd" ->
           \E k \in 1 .. Len(stmt.statements) : DoesIO(stmt.statements[k])
      [] stmt.kind = "If" ->
           \/ DoesIO(stmt.then_stmt)
           \/ stmt.else_stmt # <<>> /\ DoesIO(stmt.else_stmt[1])
      [] stmt.kind = "While" -> DoesIO(stmt.body)
      [] OTHER -> FALSE

\* try_licm moves an assignment of the body it is given to the front of the
\* loop although a statement before it in the body does I/O or calls
HoistsAcrossIO(body) ==
    /\ body.kind = "BeginEnd"
    /\ \E k \in 1 .. Len(body.statements) :
          /\ hoist(body.statements[k], collect_modified_vars(body))
          /\ \E j \in 1 .. (k - 1) : DoesIO(body.statements[j])

\* some while loop of the statement, when optimize_statement reaches it, has
\* an assignment hoisted across I/O or a call
RECURSIVE ReordersIO(_)
ReordersIO(stmt) ==
    CASE stmt.kind = "While" ->
           \/ ReordersIO(stmt.body)
           \/ HoistsAcrossIO(optimize_statement(stmt.body))
      [] stmt.kind = "BeginEnd" ->
           \E k \in 1 .. Len(stmt.statements) : ReordersIO(stmt.statements[k])
      [] stmt.kind = "If" ->
           \/ ReordersIO(stmt.then_stmt)
           \/ stmt.else_stmt # <<>> /\ ReordersIO(stmt.else_stmt[1])
      [] OTHER -> FALSE

RECURSIVE BlockReordersIO(_)
BlockReordersIO(block) ==
    \/ ReordersIO(block.statement)
    \/ \E k \in 1 .. Len(block.procedures) : BlockReordersIO(block.procedures[k].block)

\* C14: optimize_ast hoists no assignment out of a while loop across a read,
\* a write or a call that precedes it in the loop body
C14_NoHoistAcrossIO ==
    [][IsOptimizeAst => ~BlockReordersIO(program.block)]_vars

\* C15: the vector optimize returns for a compiled program produces, on every
\* input sequence, the output and the final status of the vector it was given
C15_CodeOptimizerPreserves ==
    [][IsOptimizeCode => SameBehaviour(code, code')]_vars

(***************************************************************************)
(* pl0c, pl0vm, pl0vmgui: the assembly file. A text is a sequence of       *)
(* characters, each a string of length one                                 *)
(***************************************************************************)
\* blank lines an editor adds to a written file
MaxBlankLines == 1

NL == "\n"
Whitespace == {" ", "\t", "\r", NL}

\* {:?} of an OpCode: the name of the variant
Mnemonic ==
    [LIT |-> <<"L", "I", "T">>, OPR |-> <<"O", "P", "R">>, LOD |-> <<"L", "O", "D">>,
     STO |-> <<"S", "T", "O">>, CAL |-> <<"C", "A", "L">>, INT |-> <<"I", "N", "T">>,
     JMP |-> <<"J", "M", "P">>, JPC |-> <<"J", "P", "C">>, RED |-> <<"R", "E", "D">>,
     WRT |-> <<"W", "R", "T">>]

DigitChars == <<"0", "1", "2", "3", "4", "5", "6", "7", "8", "9">>

\* {} of an unsigned integer: its decimal digits
RECURSIVE fmt_usize(_)
fmt_usize(n) ==
    IF n < 10 THEN <<DigitChars[n + 1]>>
    ELSE Append(fmt_usize(n \div 10), DigitChars[(n % 10) + 1])

\* {} of an i64: a minus sign for a negative value, then the digits
fmt_i64_no_sign(a) == fmt_usize(Abs(a))
fmt_i64(a) == IF a < 0 THEN <<"-">> \o fmt_usize(-a) ELSE fmt_usize(a)

\* writeln!(file, "{:?} {} {}", instr.f, instr.l, instr.a)
writeln_instr(instr) ==
    Mnemonic[instr.f] \o <<" ">> \o fmt_usize(instr.l) \o <<" ">> \o fmt_i64(instr.a)
    \o <<NL>>

RECURSIVE write_asm(_)
write_asm(c) == IF c = <<>> THEN <<>> ELSE writeln_instr(Head(c)) \o write_asm(Tail(c))

\* BufRead::lines: the text between line feeds, without a carriage return at
\* the end; what follows the last line feed is a line if it is not empty
strip_cr(line) ==
    IF line # <<>> /\ line[Len(line)] = "\r" THEN SubSeq(line, 1, Len(line) - 1)
    ELSE line

RECURSIVE lines_from(_, _, _)
lines_from(text, k, cur) ==
    IF k > Len(text) THEN (IF cur = <<>> THEN <<>> ELSE <<cur>>)
    ELSE IF text[k] = NL THEN <<strip_cr(cur)>> \o lines_from(text, k + 1, <<>>)
    ELSE lines_from(text, k + 1, Append(cur, text[k]))

lines(text) == lines_from(text, 1, <<>>)

\* str::split_whitespace
RECURSIVE split_from(_, _, _)
split_from(line, k, cur) ==
    IF k > Len(line) THEN (IF cur = <<>> THEN <<>> ELSE <<cur>>)
    ELSE IF line[k] \in Whitespace
    THEN (IF cur = <<>> THEN <<>> ELSE <<cur>>) \o split_from(line, k + 1, <<>>)
    ELSE split_from(line, k + 1, Append(cur, line[k]))

split_whitespace(line) == split_from(line, 1, <<>>)

\* the value of a string of digits, -1 for a string that is empty or holds
\* another character
RECURSIVE digits_value(_, _, _)
digits_value(s, k, acc) ==
    IF k > Len(s) THEN acc
    ELSE LET d == {n \in 0 .. 9 : DigitChars[n + 1] = s[k]} IN
         IF d = {} THEN -1 ELSE digits_value(s, k + 1, 10 * acc + (CHOOSE n \in d : TRUE))

unsigned_value(s) == IF s = <<>> THEN -1 ELSE digits_value(s, 1, 0)

\* str::parse::<usize>: an optional +, digits, a value that fits
parse_usize(s) ==
    LET digits == IF s # <<>> /\ s[1] = "+" THEN Tail(s) ELSE s
        v == unsigned_value(digits)
    IN IF v < 0 \/ v >= UsizeModulus THEN None ELSE Some(v)

\* str::parse::<i64>: an optional + or -, digits, a value that fits
parse_i64(s) ==
    LET negative == s # <<>> /\ s[1] = "-"
        digits == IF s # <<>> /\ s[1] \in {"+", "-"} THEN Tail(s) ELSE s
        v == unsigned_value(digits)
        signed == IF negative THEN -v ELSE v
    IN IF v < 0 \/ signed > IntMax \/ signed < IntMin THEN None ELSE Some(signed)

\* parse_opcode of pl0vmgui; the one of pl0vm panics where this is None
parse_opcode(s) ==
    LET f == {o \in OpCode : Mnemonic[o] = s} IN
    IF f = {} THEN None ELSE Some(CHOOSE o \in f : TRUE)

\* the instruction of a line of three fields or more, None when a field does
\* not parse
parse_line(parts) ==
    LET f == parse_opcode(parts[1])
        l == parse_usize(parts[2])
        a == parse_i64(parts[3])
    IN IF f = None \/ l = None \/ a = None THEN None
       ELSE Some(Instruction(f[1], l[1], a[1]))

\* main of pl0vm: a line of fewer than three fields is passed over, a field
\* that does not parse panics
RECURSIVE load_asm(_, _, _)
load_asm(ls, k, instructions) ==
    IF k > Len(ls) THEN [instructions |-> instructions, ok |-> TRUE]
    ELSE LET parts == split_whitespace(ls[k]) IN
         IF Len(parts) >= 3
         THEN IF parse_line(parts) = None
              THEN [instructions |-> instructions, ok |-> FALSE]
              ELSE load_asm(ls, k + 1, Append(instructions, parse_line(parts)[1]))
         ELSE load_asm(ls, k + 1, instructions)

\* load_asm_file of pl0vmgui: an empty line is passed over, a line of one or
\* two fields or a field that does not parse ends the load without success
RECURSIVE load_asm_file(_, _, _)
load_asm_file(ls, k, new_instructions) ==
    IF k > Len(ls) THEN [instructions |-> new_instructions, ok |-> TRUE]
    ELSE LET parts == split_whitespace(ls[k]) IN
         IF parts = <<>> THEN load_asm_file(ls, k + 1, new_instructions)
         ELSE IF Len(parts) >= 3 /\ parse_line(parts) # None
         THEN load_asm_file(ls, k + 1, Append(new_instructions, parse_line(parts)[1]))
         ELSE [instructions |-> new_instructions, ok |-> FALSE]

\* pl0c holds the final code
InitAsm ==
    /\ \E c \in AsmFiles : SetVMInit(c)
    /\ program = NoProgram
    /\ errors = <<>>
    /\ gen_error = ""
    /\ pc = "generated"
    /\ fed = <<>>
    /\ got = <<>>
    /\ frames = <<>>
    /\ entries = <<>>
    /\ NoFiles

\* pl0c writes the assembly file
WriteAsm ==
    /\ pc = "generated"
    /\ asm_file' = write_asm(code)
    /\ pc' = "written"
    /\ UNCHANGED <<vmvars, program, errors, gen_error, fed, got, frames, entries,
                   source, parser, symbol_table>>

\* the places of a text where a line starts or the text ends
LineStarts(text) == {0} \cup {k \in 1 .. Len(text) : text[k] = NL}

\* an editor adds a line that is empty or holds a blank
EditBlank ==
    /\ pc = "written"
    /\ Len(lines(asm_file)) < Len(code) + MaxBlankLines
    /\ \E k \in LineStarts(asm_file), blank \in {<<NL>>, <<" ", NL>>} :
         asm_file' = SubSeq(asm_file, 1, k) \o blank
                     \o SubSeq(asm_file, k + 1, Len(asm_file))
    /\ UNCHANGED <<vmvars, compvars, fed, got, frames, entries, source, parser,
                   symbol_table>>

\* the driver builds the VM from what it loaded
Loaded(r) ==
    /\ IF r.ok
       THEN pc' = "run" /\ SetVM(VMnew(r.instructions))
       ELSE pc' = "load failed" /\ UNCHANGED vmvars
    /\ UNCHANGED <<program, errors, gen_error, fed, got, frames, entries, filevars>>

\* pl0vm reads the file
LoadAsm ==
    /\ pc = "written"
    /\ Loaded(load_asm(lines(asm_file), 1, <<>>))

\* pl0vmgui reads the file
LoadAsmGui ==
    /\ pc = "written"
    /\ Loaded(load_asm_file(lines(asm_file), 1, <<>>))

NextAsm == WriteAsm \/ EditBlank \/ LoadAsm \/ LoadAsmGui

SpecAsm == InitAsm /\ [][NextAsm]_vars

\* C16: the vector a driver loads from the file pl0c wrote, blank lines
\* added or not, is the vector pl0c wrote
C16_AsmRoundTrip ==
    [][pc = "written" /\ pc' # "written" => pc' = "run" /\ code' = code]_vars

\* a vector with a negative A was written, a blank line was added and a
\* driver loaded the file
C16_Witness ==
    /\ pc = "run"
    /\ Len(lines(asm_file)) > Len(code)
    /\ Len(code) >= 2
    /\ \E k \in 1 .. Len(code) : code[k].a < 0
    /\ asm_file # write_asm(code)

(***************************************************************************)
(* Kinds of names under lexical scoping (SpecCompile)                      *)
(***************************************************************************)
\* an environment maps the names visible at a place to their kind
KindOf(env, n) == IF n \in DOMAIN env THEN env[n] ELSE "none"

Declare(env, names, kind) ==
    [n \in DOMAIN env \cup names |-> IF n \in names THEN kind ELSE env[n]]

Elems(s) == {s[k] : k \in 1 .. Len(s)}

\* the environment inside a block: the enclosing one, overridden by the
\* block's constants, variables and procedure names
BlockEnv(env, block) ==
    Declare(Declare(Declare(env, {block.consts[k].name : k \in 1 .. Len(block.consts)},
                            "Constant"),
                    Elems(block.vars), "Variable"),
            {block.procedures[k].name : k \in 1 .. Len(block.procedures)}, "Procedure")

\* the expression names a procedure as a value
RECURSIVE ExprMisuse(_, _)
ExprMisuse(e, env) ==
    CASE e.kind = "Identifier" -> KindOf(env, e.name) = "Procedure"
      [] e.kind = "Binary" -> ExprMisuse(e.left, env) \/ ExprMisuse(e.right, env)
      [] e.kind = "Unary" -> ExprMisuse(e.expr, env)
      [] OTHER -> FALSE

CondMisuse(c, env) ==
    IF c.kind = "Odd" THEN ExprMisuse(c.expr, env)
    ELSE ExprMisuse(c.left, env) \/ ExprMisuse(c.right, env)

\* the statement assigns to or reads into a constant or a procedure, calls a
\* name that is not a procedure, or names a procedure as a value
RECURSIVE StmtMisuse(_, _)
StmtMisuse(st, env) ==
    CASE st.kind = "Assignment" ->
           \/ KindOf(env, st.name) \in {"Constant", "Procedure"}
           \/ ExprMisuse(st.expr, env)
      [] st.kind = "Call" ->
           \/ KindOf(env, st.name) \in {"Constant", "Variable"}
           \/ \E k \in 1 .. Len(st.args) : ExprMisuse(st.args[k], env)
      [] st.kind = "BeginEnd" ->
           \E k \in 1 .. Len(st.statements) : StmtMisuse(st.statements[k], env)
      [] st.kind = "If" ->
           \/ CondMisuse(st.condition, env)
           \/ StmtMisuse(st.then_stmt, env)
           \/ st.else_stmt # <<>> /\ StmtMisuse(st.else_stmt[1], env)
      [] st.kind = "While" -> CondMisuse(st.condition, env) \/ StmtMisuse(st.body, env)
      [] st.kind = "Read" ->
           \E k \in 1 .. Len(st.names) :
               KindOf(env, st.names[k]) \in {"Constant", "Procedure"}
      [] st.kind = "Write" -> \E k \in 1 .. Len(st.exprs) : ExprMisuse(st.exprs[k], env)
      [] OTHER -> FALSE

RECURSIVE BlockMisuse(_, _)
BlockMisuse(block, env) ==
    LET inner == BlockEnv(env, block) IN
    \/ StmtMisuse(block.statement, inner)
    \/ \E k \in 1 .. Len(block.procedures) :
          BlockMisuse(block.procedures[k].block,
                      Declare(inner, Elems(block.procedures[k].params), "Variable"))

\* C17: a program that uses a name against its kind does not pass semantic
\* analysis: the analyzer returns at least one error
C17_KindMismatchReported ==
    pc # "parsed" /\ BlockMisuse(program.block, <<>>) => errors # <<>>

(***************************************************************************)
(* lexer.rs: tokens. A source is the sequence of its lexemes, the maximal  *)
(* pieces next_token scans at once                                         *)
(***************************************************************************)
Token(type, name, val) == [type |-> type, name |-> name, val |-> val]

\* scan_identifier_or_keyword: the words that are not identifiers
Keywords ==
    [program |-> "Program", const |-> "Const", var |-> "Var",
     procedure |-> "Procedure", begin |-> "Begin", end |-> "End", if |-> "If",
     then |-> "Then", else |-> "Else", while |-> "While", do |-> "Do",
     call |-> "Call", read |-> "Read", write |-> "Write", odd |-> "Odd"]

\* next_token: operators and delimiters; a ':' that no '=' follows and any
\* other character are Unknown
Punctuation ==
    ("+" :> "Plus") @@ ("-" :> "Minus") @@ ("*" :> "Multiply") @@ ("/" :> "Divide")
    @@ ("=" :> "Equals") @@ ("#" :> "Hash") @@ ("<>" :> "Hash")
    @@ ("<=" :> "LessEqual") @@ ("<" :> "LessThan") @@ (">=" :> "GreaterEqual")
    @@ (">" :> "GreaterThan") @@ (":=" :> "Assignment") @@ (":" :> "Unknown")
    @@ ("(" :> "LParen") @@ (")" :> "RParen") @@ ("," :> "Comma")
    @@ (";" :> "Semicolon") @@ ("." :> "Period") @@ ("?" :> "Unknown")

\* scan_number: the value of the literals the sources use
Literals == ("0" :> 0) @@ ("1" :> 1) @@ ("70" :> 70)

\* the token next_token makes of a lexeme
scan(lexeme) ==
    IF lexeme \in DOMAIN Punctuation THEN Token(Punctuation[lexeme], "", 0)
    ELSE IF lexeme \in DOMAIN Literals THEN Token("Number", "", Literals[lexeme])
    ELSE IF lexeme \in DOMAIN Keywords THEN Token(Keywords[lexeme], "", 0)
    ELSE Token("Identifier", lexeme, 0)

(***************************************************************************)
(* parser.rs: the parser. A panic is kept in the field panic, "" for none  *)
(***************************************************************************)
\* Parser::new(Lexer::new(source))
Parser_new(src) == [input |-> src, code |-> <<>>, table |-> <<>>, level |-> 0, panic |-> ""]

\* self.lexer.current_token
current_token(ps) == IF ps.input = <<>> THEN Token("Eof", "", 0) ELSE scan(Head(ps.input))

Unwinding(ps) == ps.panic # ""

\* Parser::error
error(ps, msg) == IF Unwinding(ps) THEN ps ELSE [ps EXCEPT !.panic = msg]

\* Parser::next
next(ps) ==
    IF Unwinding(ps) \/ ps.input = <<>> THEN ps ELSE [ps EXCEPT !.input = Tail(@)]

\* Parser::expect
expect(ps, type) ==
    IF Unwinding(ps) THEN ps
    ELSE IF current_token(ps).type = type THEN next(ps)
    ELSE error(ps, "Expected " \o type \o ", found " \o current_token(ps).type)

\* Parser::emit
p_emit(ps, f, l, a) ==
    IF Unwinding(ps) THEN ps ELSE [ps EXCEPT !.code = Append(@, Instruction(f, l, a))]

\* CodeGenerator::backpatch
backpatch(ps, addr, val) ==
    IF Unwinding(ps) \/ addr >= Len(ps.code) THEN ps
    ELSE [ps EXCEPT !.code[addr + 1].a = val]

\* Parser::enter
enter(ps, name, kind) ==
    IF Unwinding(ps) THEN ps ELSE [ps EXCEPT !.table = Append(@, Symbol(name, kind))]

\* Parser::position: the last entry of the name, NoSymbol for None
position(ps, name) ==
    LET found == {k \in 1 .. Len(ps.table) : ps.table[k].name = name} IN
    IF found = {} THEN NoSymbol
    ELSE ps.table[CHOOSE k \in found : \A k2 \in found : k2 <= k]

\* the lookups of statement and factor: the symbol of a kind among kinds, or
\* the error of the arm
lookup(ps, name, kinds, wrong_kind, undefined) ==
    LET sym == position(ps, name) IN
    IF ~IsSome(sym) THEN error(ps, undefined)
    ELSE IF sym.kind.tag \notin kinds THEN error(ps, wrong_kind)
    ELSE ps

RECURSIVE p_expression(_)
RECURSIVE p_statement(_)
RECURSIVE p_block(_)

\* Parser::factor
p_factor(ps) ==
    IF Unwinding(ps) THEN ps ELSE
    LET tok == current_token(ps) IN
    CASE tok.type = "Identifier" ->
           LET ps1 == lookup(next(ps), tok.name, {"Constant", "Variable"},
                             "Expected constant or variable", "Undefined symbol")
               sym == position(ps, tok.name)
           IN IF Unwinding(ps1) THEN ps1
              ELSE IF sym.kind.tag = "Constant" THEN p_emit(ps1, "LIT", 0, sym.kind.val)
              ELSE p_emit(ps1, "LOD", ps.level - sym.kind.level, sym.kind.addr)
      [] tok.type = "Number" -> p_emit(next(ps), "LIT", 0, tok.val)
      [] tok.type = "LParen" -> expect(p_expression(next(ps)), "RParen")
      [] OTHER -> error(ps, "Expected factor")

\* Parser::term: the loop after the first factor
RECURSIVE term_rest(_)
term_rest(ps) ==
    IF Unwinding(ps) THEN ps ELSE
    LET op == current_token(ps).type IN
    IF op \in {"Multiply", "Divide"}
    THEN term_rest(p_emit(p_factor(next(ps)), "OPR", 0, IF op = "Multiply" THEN MUL ELSE DIV))
    ELSE ps

p_term(ps) == term_rest(p_factor(ps))

\* Parser::expression: the loop after the first term
RECURSIVE expression_rest(_)
expression_rest(ps) ==
    IF Unwinding(ps) THEN ps ELSE
    LET op == current_token(ps).type IN
    IF op \in {"Plus", "Minus"}
    THEN expression_rest(p_emit(p_term(next(ps)), "OPR", 0, IF op = "Plus" THEN ADD ELSE SUB))
    ELSE ps

\* Parser::expression
p_expression(ps) ==
    IF Unwinding(ps) THEN ps ELSE
    LET op == current_token(ps).type
        negate(ps1) == IF op = "Minus" THEN p_emit(ps1, "OPR", 0, NEG) ELSE ps1
    IN expression_rest(negate(p_term(IF op \in {"Plus", "Minus"} THEN next(ps) ELSE ps)))

\* the relational operators of Parser::condition
Relops ==
    [Equals |-> EQL, Hash |-> NEQ, LessThan |-> LSS, GreaterEqual |-> GEQ,
     GreaterThan |-> GTR, LessEqual |-> LEQ]

\* Parser::condition
p_condition(ps) ==
    IF Unwinding(ps) THEN ps ELSE
    IF current_token(ps).type = "Odd" THEN p_emit(p_expression(next(ps)), "OPR", 0, ODD)
    ELSE LET relop(ps1) ==
                 IF Unwinding(ps1) THEN ps1
                 ELSE IF current_token(ps1).type \in DOMAIN Relops
                 THEN p_emit(p_expression(next(ps1)), "OPR", 0,
                             Relops[current_token(ps1).type])
                 ELSE error(ps1, "Expected relational operator")
         IN relop(p_expression(ps))

\* the loops of call and write: expressions separated by commas, each followed
\* by WRT in a write; n counts them
RECURSIVE expression_list(_, _, _)
expression_list(ps, wrt, n) ==
    IF Unwinding(ps) THEN [ps |-> ps, n |-> n] ELSE
    LET more(ps2) ==
            IF Unwinding(ps2) THEN [ps |-> ps2, n |-> n + 1]
            ELSE IF current_token(ps2).type = "Comma"
            THEN expression_list(next(ps2), wrt, n + 1)
            ELSE [ps |-> ps2, n |-> n + 1]
        written(ps1) == IF wrt THEN p_emit(ps1, "WRT", 0, 0) ELSE ps1
    IN more(written(p_expression(ps)))

\* the loop of read
RECURSIVE read_list(_)
read_list(ps) ==
    IF Unwinding(ps) THEN ps ELSE
    LET tok == current_token(ps)
        ps1 == IF tok.type = "Identifier"
               THEN LET ps2 == lookup(next(ps), tok.name, {"Variable"},
                                      "Read to non-variable", "Undefined variable")
                        sym == position(ps, tok.name)
                    IN IF Unwinding(ps2) THEN ps2
                       ELSE p_emit(ps2, "RED", ps.level - sym.kind.level, sym.kind.addr)
               ELSE error(ps, "Expected identifier")
    IN IF Unwinding(ps1) THEN ps1
       ELSE IF current_token(ps1).type = "Comma" THEN read_list(next(ps1))
       ELSE ps1

\* the loop of begin ... end after the first statement
RECURSIVE statement_rest(_)
statement_rest(ps) ==
    IF Unwinding(ps) THEN ps ELSE
    IF current_token(ps).type = "Semicolon" THEN statement_rest(p_statement(next(ps)))
    ELSE ps

\* Parser::statement
p_statement(ps) ==
    IF Unwinding(ps) THEN ps ELSE
    LET tok == current_token(ps) IN
    CASE tok.type = "Identifier" ->
           LET ps1 == lookup(ps, tok.name, {"Variable"},
                             "Assignment to non-variable", "Undefined variable")
               sym == position(ps, tok.name)
               store(ps2) ==
                   IF Unwinding(ps2) THEN ps2
                   ELSE p_emit(ps2, "STO", ps.level - sym.kind.level, sym.kind.addr)
           IN store(p_expression(expect(next(ps1), "Assignment")))
      [] tok.type = "Call" ->
           LET ps1 == next(ps)
               name == current_token(ps1)
           IN IF name.type # "Identifier" THEN error(ps1, "Expected identifier after call")
              ELSE LET ps2 == lookup(next(ps1), name.name, {"Procedure"},
                                     "Call to non-procedure", "Undefined procedure")
                       sym == position(ps1, name.name)
                       call(ps3) == p_emit(ps3, "CAL", ps.level - sym.kind.level, sym.kind.addr)
                       call_args(args) ==
                           p_emit(call(expect(args.ps, "RParen")), "INT", 0, -args.n)
                   IN IF Unwinding(ps2) THEN ps2
                      ELSE IF current_token(ps2).type = "LParen"
                      THEN call_args(expression_list(next(ps2), FALSE, 0))
                      ELSE call(ps2)
      [] tok.type = "Begin" -> expect(statement_rest(p_statement(next(ps))), "End")
      [] tok.type = "If" ->
           LET patch_jmp(ps4, jmp_idx) == backpatch(ps4, jmp_idx, Len(ps4.code))
               else_part(ps3, jpc_idx, jmp_idx) ==
                   patch_jmp(p_statement(backpatch(ps3, jpc_idx, Len(ps3.code))), jmp_idx)
               after_then(ps2, jpc_idx) ==
                   IF Unwinding(ps2) THEN ps2
                   ELSE IF current_token(ps2).type = "Else"
                   THEN else_part(p_emit(next(ps2), "JMP", 0, 0), jpc_idx, Len(ps2.code))
                   ELSE backpatch(ps2, jpc_idx, Len(ps2.code))
               then_part(ps1) ==
                   IF Unwinding(ps1) THEN ps1
                   ELSE after_then(p_statement(p_emit(ps1, "JPC", 0, 0)), Len(ps1.code))
           IN then_part(expect(p_condition(next(ps)), "Then"))
      [] tok.type = "While" ->
           LET patch_jpc(ps3, jpc_idx) == backpatch(ps3, jpc_idx, Len(ps3.code))
               body(ps1) ==
                   IF Unwinding(ps1) THEN ps1
                   ELSE patch_jpc(p_emit(p_statement(p_emit(ps1, "JPC", 0, 0)),
                                         "JMP", 0, Len(ps.code)),
                                  Len(ps1.code))
           IN body(expect(p_condition(next(ps)), "Do"))
      [] tok.type = "Read" -> expect(read_list(expect(next(ps), "LParen")), "RParen")
      [] tok.type = "Write" ->
           expect(expression_list(expect(next(ps), "LParen"), TRUE, 0).ps, "RParen")
      [] OTHER -> error(ps, "Unexpected token in statement")

\* Parser::const_decl: the token between the name and the number
const_item_assign(ps) ==
    IF current_token(ps).type = "Assignment" THEN next(ps) ELSE error(ps, "Expected :=")

\* the loop of Parser::const_decl: <id> := <number> {, <id> := <number>}
RECURSIVE const_list(_)
const_list(ps) ==
    IF Unwinding(ps) THEN ps ELSE
    LET tok == current_token(ps)
        ps1 == IF tok.type = "Identifier"
               THEN LET ps2 == const_item_assign(next(ps))
                        num == current_token(ps2)
                    IN IF Unwinding(ps2) THEN ps2
                       ELSE IF num.type = "Number"
                       THEN next(enter(ps2, tok.name, Constant(num.val)))
                       ELSE error(ps2, "Expected number")
               ELSE error(ps, "Expected identifier")
    IN IF Unwinding(ps1) THEN ps1
       ELSE IF current_token(ps1).type = "Comma" THEN const_list(next(ps1))
       ELSE ps1

\* Parser::const_decl
const_decl(ps) == expect(const_list(next(ps)), "Semicolon")

\* the loop of Parser::var_decl; vars counts the variables
RECURSIVE var_list(_, _)
var_list(ps, vars_) ==
    IF Unwinding(ps) THEN [ps |-> ps, vars |-> vars_] ELSE
    LET tok == current_token(ps) IN
    IF tok.type # "Identifier"
    THEN [ps |-> error(ps, "Expected identifier"), vars |-> vars_]
    ELSE LET ps1 == next(enter(ps, tok.name, Variable(ps.level, 3 + vars_))) IN
         IF current_token(ps1).type = "Comma" THEN var_list(next(ps1), vars_ + 1)
         ELSE [ps |-> ps1, vars |-> vars_ + 1]

\* Parser::var_decl
var_decl(ps) ==
    LET r == var_list(next(ps), 0) IN [ps |-> expect(r.ps, "Semicolon"), vars |-> r.vars]

\* the parameter names of Parser::proc_decl
RECURSIVE param_list(_, _)
param_list(ps, params) ==
    IF Unwinding(ps) THEN [ps |-> ps, params |-> params] ELSE
    LET tok == current_token(ps) IN
    IF tok.type # "Identifier"
    THEN [ps |-> error(ps, "Expected parameter name"), params |-> params]
    ELSE LET ps1 == next(ps) IN
         IF current_token(ps1).type = "Comma"
         THEN param_list(next(ps1), Append(params, tok.name))
         ELSE [ps |-> ps1, params |-> Append(params, tok.name)]

RECURSIVE enter_params(_, _, _)
enter_params(ps, params, k) ==
    IF Unwinding(ps) \/ k > Len(params) THEN ps
    ELSE enter_params(enter(ps, params[k], Variable(ps.level, -(Len(params) - (k - 1)))),
                      params, k + 1)

\* Parser::proc_decl
RECURSIVE proc_decl(_)
proc_decl(ps) ==
    IF Unwinding(ps) THEN ps ELSE
    IF current_token(ps).type # "Procedure" THEN ps
    ELSE LET ps1 == next(ps)
             name == current_token(ps1)
             again(ps5) ==
                 IF Unwinding(ps5) THEN ps5 ELSE proc_decl([ps5 EXCEPT !.level = @ - 1])
             body(r) ==
                 again(expect(p_block(enter_params(expect(r.ps, "Semicolon"), r.params, 1)),
                              "Semicolon"))
             params_rparen(l) == [ps |-> expect(l.ps, "RParen"), params |-> l.params]
             params(ps3) ==
                 IF current_token(ps3).type = "LParen"
                 THEN IF current_token(next(ps3)).type # "RParen"
                      THEN params_rparen(param_list(next(ps3), <<>>))
                      ELSE [ps |-> expect(next(ps3), "RParen"), params |-> <<>>]
                 ELSE [ps |-> ps3, params |-> <<>>]
         IN IF name.type # "Identifier" THEN error(ps1, "Expected procedure name")
            ELSE body(params([enter(next(ps1), name.name,
                                    Procedure(ps.level, Len(ps.code)))
                              EXCEPT !.level = @ + 1]))

\* Parser::block
p_block(ps) ==
    IF Unwinding(ps) THEN ps ELSE
    LET tx0 == Len(ps.table)
        jmp_addr == Len(ps.code)
        leave(ps5) ==
            IF Unwinding(ps5) THEN ps5 ELSE [ps5 EXCEPT !.table = SubSeq(@, 1, tx0)]
        body(ps3, vars_) ==
            leave(p_emit(p_statement(p_emit(backpatch(ps3, jmp_addr, Len(ps3.code)),
                                            "INT", 0, 3 + vars_)),
                         "OPR", 0, RET))
        procs(v) == body(proc_decl(v.ps), v.vars)
        variables(ps2) ==
            procs(IF current_token(ps2).type = "Var" /\ ~Unwinding(ps2) THEN var_decl(ps2)
                  ELSE [ps |-> ps2, vars |-> 0])
        constants(ps1) ==
            variables(IF current_token(ps1).type = "Const" THEN const_decl(ps1) ELSE ps1)
    IN constants(p_emit(ps, "JMP", 0, 0))

\* Parser::program
p_program(ps) ==
    LET ps1 == IF current_token(ps).type = "Program"
               THEN LET ps2 == next(ps) IN
                    expect(IF current_token(ps2).type = "Identifier" THEN next(ps2)
                           ELSE error(ps2, "Expected program name"),
                           "Semicolon")
               ELSE error(ps, "Expected 'program'")
    IN p_block(ps1)

\* Parser::parse
parse(ps) == p_program(ps)

(***************************************************************************)
(* Compiling a source with the one-pass parser                             *)
(***************************************************************************)
\* the parts the sources are made of
Headers == {<<"program", "t", ";">>, <<"t", ";">>}

ConstParts ==
    {<<>>,
     <<"const", "c", ":=", "70", ";">>,
     <<"const", "c", "=", "70", ";">>,
     <<"const", "d", ":=", "1", ",", "c", ":=", "70", ";">>}

VarParts == {<<"var", "x", ";">>, <<"var", "x", ",", "y", ";">>}

ProcParts ==
    {<<>>,
     <<"procedure", "p", "(", "a", ")", ";", "begin", "x", ":=", "a", "+", "c", "end", ";">>,
     <<"procedure", "p", ";", "write", "(", "x", ")", ";">>,
     <<"procedure", "p", "(", "a", ")", ";", "x", ":=", "a", ";",
       "procedure", "q", ";", "write", "(", "a", ")", ";">>}

\* statements without a syntax error
GoodBodies ==
    {<<"write", "(", "c", ")">>,
     <<"begin", "x", ":=", "c", "*", "(", "x", "-", "1", ")", ";", "write", "(", "x", ",", "c", ")", "end">>,
     <<"begin", "read", "(", "x", ")", ";", "while", "x", ">", "0", "do", "x", ":=", "x", "-", "1", ";",
       "write", "(", "x", ")", "end">>,
     <<"if", "odd", "x", "then", "call", "p", "(", "1", ")", "else", "write", "(", "0", ")">>,
     <<"if", "x", "<=", "c", "then", "call", "p">>}

\* statements with one syntax error, and with two that do not depend on each
\* other
BadBodies ==
    {<<"begin", "x", ":=", "1", ";", "?", ";", "write", "(", "x", ")", "end">>,
     <<"begin", "x", ":=", "1", "write", "(", "x", ")", "end">>,
     <<"begin", "x", ":=", ";", "write", "(", "1", ")", ";", "x", ":=", "*", "1", "end">>,
     <<"begin", "if", "x", "then", "x", ":=", "1", ";", "write", "x", "end">>}

\* the names a piece of source mentions
Mentions(text, name) == \E k \in 1 .. Len(text) : text[k] = name

\* the sources whose every name is declared, and declared before c is used
Compose(headers, consts, bodies) ==
    {h \o cp \o vp \o pp \o body \o <<".">> :
        h \in headers, cp \in consts, vp \in VarParts, pp \in ProcParts, body \in bodies}

Declared(text) ==
    /\ Mentions(text, "c") => \E k \in 1 .. Len(text) - 1 :
                                 text[k] = "c" /\ text[k + 1] \in {"=", ":="}
    /\ Mentions(text, "p") => \E k \in 2 .. Len(text) :
                                 text[k] = "p" /\ text[k - 1] = "procedure"

Sources == {text \in Compose(Headers, ConstParts, GoodBodies \cup BadBodies) : Declared(text)}

\* the sources that follow the grammar
WellFormed == Compose({<<"program", "t", ";">>}, ConstParts, GoodBodies) \cap Sources

InitParse ==
    /\ source \in Sources
    /\ parser = <<>>
    /\ asm_file = <<>>
    /\ symbol_table = <<>>
    /\ SetVMInit(<<>>)
    /\ program = NoProgram
    /\ errors = <<>>
    /\ gen_error = ""
    /\ pc = "source"
    /\ fed = <<>>
    /\ got = <<>>
    /\ frames = <<>>
    /\ entries = <<>>

\* let lexer = Lexer::new(&source); let mut parser = Parser::new(lexer)
NewParser ==
    /\ pc = "source"
    /\ parser' = Parser_new(source)
    /\ pc' = "lexed"
    /\ UNCHANGED <<vmvars, program, errors, gen_error, fed, got, frames, entries,
                   asm_file, source, symbol_table>>

\* parser.parse(): it returns, and the code is parser.generator.code, or it
\* unwinds with a panic
Parse ==
    /\ pc = "lexed"
    /\ parser' = parse(parser)
    /\ pc' = IF Unwinding(parser') THEN "panicked" ELSE "returned"
    /\ code' = IF Unwinding(parser') THEN code ELSE parser'.code
    /\ UNCHANGED <<stack, p, b, t, i, output, input_queue, state, instruction_count,
                   program, errors, gen_error, fed, got, frames, entries, asm_file, source,
                   symbol_table>>

NextParse == NewParser \/ Parse

SpecParse == InitParse /\ [][NextParse]_vars

\* the sources of WellFormed whose constant declaration is const c <sep> 70;
ConstSources(sep) ==
    Compose({<<"program", "t", ";">>}, {<<"const", "c", sep, "70", ";">>}, GoodBodies)
    \cap Sources

\* the code loads the value 70 where the source uses c
Loads70 == \E k \in 1 .. Len(code) : code[k] = Instruction("LIT", 0, 70)

\* C18: a source whose constant declaration is 'const c = 70;' or
\* 'const c := 70;' and that is otherwise well formed parses without error,
\* and c is defined with the value 70: the code generated for a use of c
\* loads 70
C18_ConstEqualsOrAssign ==
    \A sep \in {"=", ":="} :
        source \in ConstSources(sep) /\ pc \in {"returned", "panicked"}
            => pc = "returned" /\ Loads70

\* C19: a syntax error does not abort parsing: parse returns on every source,
\* and with it the errors it recorded, one for each independent syntax error
C19_SyntaxErrorsDoNotAbort ==
    source \notin WellFormed => pc # "panicked"

(***************************************************************************)
(* Division by zero                                                        *)
(***************************************************************************)
\* the next call of step executes OPR DIV with the divisor 0 on top of the
\* stack
DivByZero ==
    /\ pc = "run"
    /\ state = Running
    /\ p < Len(code)
    /\ code[p + 1] = Instruction("OPR", 0, DIV)
    /\ t >= 1
    /\ (t - 1) \in StackIdx
    /\ stack[t - 1] = 0

\* a call of step that fetched an instruction
Stepped == instruction_count' = instruction_count + 1

\* C20: a step that executes OPR DIV with the divisor 0 on top of the stack
\* sets the status to Error("Division by zero") and changes neither the slot
\* of the dividend nor a slot below it, so no quotient is stored; from then
\* on a step changes nothing of the VM
C20_DivByZeroIsError ==
    /\ [][DivByZero /\ Stepped
            => /\ state' = Error("Division by zero")
               /\ \A k \in 0 .. t - 2 : stack'[k] = stack[k]]_vars
    /\ [][state = Error("Division by zero") => UNCHANGED vmvars]_vars

\* a division by zero has happened under the dividend 1
C20_Witness ==
    /\ pc = "run"
    /\ state = Error("Division by zero")
    /\ i = Instruction("OPR", 0, DIV)
    /\ t >= 1
    /\ t \in StackIdx
    /\ stack[t - 1] = 1
    /\ stack[t] = 0
    /\ instruction_count >= 5

(***************************************************************************)
(* The instruction counter                                                 *)
(***************************************************************************)
\* C21 as stated: every call of step adds one to instruction_count
C21_EveryStepCounts ==
    [][IsStep => instruction_count' = instruction_count + 1]_vars

\* C21: a call of step that fetches an instruction (the status is Running and
\* P is inside the code) adds exactly one to instruction_count, also when the
\* instruction is a read that yields; a call in another status or with P
\* outside the code, and the input of a driver, leave the counter as it is
C21_FetchingStepCounts ==
    [][/\ IsStep /\ Fetching => instruction_count' = instruction_count + 1
       /\ ~(IsStep /\ Fetching) => instruction_count' = instruction_count]_vars

\* LIT 0 1 was fetched and counted, the next call found P outside the code and
\* was not counted
C21_Witness ==
    /\ code = <<Instruction("LIT", 0, 1)>>
    /\ state = Error("PC out of bounds")
    /\ instruction_count = 1
    /\ t = 1

(***************************************************************************)
(* Truth values                                                            *)
(***************************************************************************)
\* the relational operators
Relational == {EQL, NEQ, LSS, GEQ, GTR, LEQ}

\* the next call of step executes OPR 0 k on operands that are on the stack
ExecutesOpr(k, operands) ==
    /\ IsStep
    /\ Fetching
    /\ Next_i = Instruction("OPR", 0, k)
    /\ t >= operands
    /\ (t - 1) \in StackIdx

\* the next call of step executes a JPC on a value that is on the stack
ExecutesJpc ==
    /\ IsStep
    /\ Fetching
    /\ Next_i.f = "JPC"
    /\ t >= 1
    /\ (t - 1) \in StackIdx

\* C22: truth values on the stack are 0 or 1: OPR ODD leaves 1 in place of an
\* odd operand, negative ones included, and 0 in place of an even one; a
\* relational OPR leaves 1 or 0 as the new top; JPC jumps exactly when the
\* value it pops is 0
C22_TruthValues ==
    [][/\ ExecutesOpr(ODD, 1)
          => stack'[t - 1] = IF stack[t - 1] % 2 = 1 THEN 1 ELSE 0
       /\ \A k \in Relational :
             ExecutesOpr(k, 2) => t' = t - 1 /\ stack'[t - 2] \in {0, 1}
       /\ ExecutesJpc
          => /\ t' = t - 1
             /\ p' = IF stack[t - 1] = 0 THEN AsUsize(Next_i.a) ELSE p + 1]_vars

(***************************************************************************)
(* Common subexpressions in a compound statement                           *)
(***************************************************************************)
\* optimize_block_dag replaces the right-hand side of statement j
Replaced(statements, j) ==
    /\ statements[j].kind = "Assignment"
    /\ optimize_block_dag(statements)[j].expr # statements[j].expr

\* the variable that replaces the right-hand side of statement j
Replacement(statements, j) == optimize_block_dag(statements)[j].expr.name

\* statement k records the expression of statement j for its variable v
Records(statements, k, j, v) ==
    /\ statements[k].kind = "Assignment"
    /\ statements[k].name = v
    /\ statements[k].expr = statements[j].expr

\* the statements after which nothing is to be available
Invalidates(stmt) == stmt.kind \in {"Read", "Call", "If", "While", "BeginEnd"}

\* a right-hand side is replaced by a variable recorded before a read, a
\* call or a nested statement that precedes it
ReplacedAcross(statements) ==
    \E j \in 1 .. Len(statements) :
        /\ Replaced(statements, j)
        /\ \E m \in 1 .. (j - 1) :
              /\ Invalidates(statements[m])
              /\ ~\E k \in (m + 1) .. (j - 1) :
                     Records(statements, k, j, Replacement(statements, j))

\* the statement may change the variable v
Changes(stmt, v) ==
    \/ stmt.kind = "Assignment" /\ stmt.name = v
    \/ stmt.kind = "Read" /\ \E n \in 1 .. Len(stmt.names) : stmt.names[n] = v
    \/ stmt.kind \in {"Call", "If", "While", "BeginEnd"}

\* the variables of an expression
RECURSIVE VarsOf(_)
VarsOf(e) ==
    CASE e.kind = "Binary" -> VarsOf(e.left) \cup VarsOf(e.right)
      [] e.kind = "Unary" -> VarsOf(e.expr)
      [] e.kind = "Identifier" -> {e.name}
      [] OTHER -> {}

\* before statement j the variable v holds the value of the expression of
\* statement j: some statement k assigned it to v, and since then neither v
\* nor a variable of the expression may have changed
Holds(statements, j, v) ==
    \E k \in 1 .. (j - 1) :
        /\ Records(statements, k, j, v)
        /\ v \notin VarsOf(statements[j].expr)
        /\ \A n \in (k + 1) .. (j - 1) :
              \A w \in {v} \cup VarsOf(statements[j].expr) : ~Changes(statements[n], w)

\* a right-hand side is replaced by a variable that does not hold its value
ReplacedByStale(statements) ==
    \E j \in 1 .. Len(statements) :
        /\ Replaced(statements, j)
        /\ ~Holds(statements, j, Replacement(statements, j))

\* the statement lists optimize_statement hands to optimize_block_dag while it
\* optimizes stmt
RECURSIVE DagInputs(_)
DagInputs(stmt) ==
    CASE stmt.kind = "BeginEnd" ->
           {[k \in 1 .. Len(stmt.statements) |-> optimize_statement(stmt.statements[k])]}
           \cup UNION {DagInputs(stmt.statements[k]) : k \in 1 .. Len(stmt.statements)}
      [] stmt.kind = "If" ->
           DagInputs(stmt.then_stmt)
           \cup (IF stmt.else_stmt # <<>> THEN DagInputs(stmt.else_stmt[1]) ELSE {})
      [] stmt.kind = "While" -> DagInputs(stmt.body)
      [] OTHER -> {}

RECURSIVE BlockDagInputs(_)
BlockDagInputs(block) ==
    DagInputs(block.statement)
    \cup UNION {BlockDagInputs(block.procedures[k].block) :
                   k \in 1 .. Len(block.procedures)}

\* C23: in a compound statement a read, a call and a nested if, while or
\* compound statement empty the mapping of available expressions: optimize_ast
\* replaces no right-hand side after such a statement by a variable recorded
\* before it
C23_BarriersEmptyMapping ==
    [][IsOptimizeAst
          => \A statements \in BlockDagInputs(program.block) :
                ~ReplacedAcross(statements)]_vars

\* C28: an entry E -> v of the mapping is used only while v holds the value of
\* E: optimize_ast replaces a right-hand side E by v only if v was assigned E
\* and neither v nor a variable of E can have changed since
C28_AvailableExprsHold ==
    [][IsOptimizeAst
          => \A statements \in BlockDagInputs(program.block) :
                ~ReplacedByStale(statements)]_vars

(***************************************************************************)
(* symbol_table.rs, semantic.rs: declarations entered scope by scope       *)
(***************************************************************************)
MaxScopes == 2
MaxDefineErrors == 1

\* SymbolTable::current_level of the scope id
RECURSIVE level_of(_, _)
level_of(st, id) ==
    IF st.scopes[id + 1].parent = NoParent THEN 0
    ELSE 1 + level_of(st, st.scopes[id + 1].parent)

current_level(st) == level_of(st, st.current_scope_id)

\* the names declared and what they are declared as
DeclNames == {"a", "c"}
DeclKinds(level) == {Variable(level, 3), Procedure(level, 0)}

\* SymbolTable::new()
InitSymbols ==
    /\ symbol_table = SymbolTable_new
    /\ asm_file = <<>> /\ source = <<>> /\ parser = <<>>
    /\ SetVMInit(<<>>)
    /\ program = NoProgram
    /\ errors = <<>>
    /\ gen_error = ""
    /\ pc = "declaring"
    /\ fed = <<>>
    /\ got = <<>>
    /\ frames = <<>>
    /\ entries = <<>>

\* analyze_block declares a name: the Err of define is pushed onto errors
DeclareSymbol ==
    /\ pc = "declaring"
    /\ \E name \in DeclNames, kind \in DeclKinds(current_level(symbol_table)) :
         LET sa == sa_define([symbol_table |-> symbol_table, errors |-> errors],
                             Symbol(name, kind))
         IN /\ Len(sa.errors) <= MaxDefineErrors
            /\ symbol_table' = sa.symbol_table
            /\ errors' = sa.errors
    /\ UNCHANGED <<vmvars, program, gen_error, pc, fed, got, frames, entries,
                   asm_file, source, parser>>

\* analyze_block reaches a procedure: create_scope, enter_scope
OpenScope ==
    /\ pc = "declaring"
    /\ Len(symbol_table.scopes) < MaxScopes
    /\ symbol_table' = enter_scope(create_scope(symbol_table), Len(symbol_table.scopes))
    /\ UNCHANGED <<vmvars, compvars, fed, got, frames, entries, asm_file, source, parser>>

\* analyze_block leaves the procedure: exit_scope
CloseScope ==
    /\ pc = "declaring"
    /\ symbol_table.scopes[symbol_table.current_scope_id + 1].parent # NoParent
    /\ symbol_table' = exit_scope(symbol_table)
    /\ UNCHANGED <<vmvars, compvars, fed, got, frames, entries, asm_file, source, parser>>

NextSymbols == DeclareSymbol \/ OpenScope \/ CloseScope

SpecSymbols == InitSymbols /\ [][NextSymbols]_vars

\* the scopes from which the scope id is reached by parent links
RECURSIVE Ancestors(_, _)
Ancestors(st, id) ==
    LET parent == st.scopes[id + 1].parent IN
    IF parent = NoParent THEN {} ELSE {parent} \cup Ancestors(st, parent)

\* define(symbol) on the table st does what C24 says
DefineAsClaimed(st, symbol) ==
    LET cur == st.current_scope_id
        r == define(st, symbol)
    IN IF contains_key(st.scopes[cur + 1].symbols, symbol.name)
       THEN /\ r.err # ""
            /\ r.st = st
       ELSE /\ r.err = ""
            /\ resolve(r.st, symbol.name) = symbol
            /\ r.st.current_scope_id = cur
            /\ \A id \in 0 .. (Len(st.scopes) - 1) :
                  id # cur => r.st.scopes[id + 1] = st.scopes[id + 1]
            /\ \A name \in DeclNames \ {symbol.name} :
                  resolve(r.st, name) = resolve(st, name)
            /\ \A id \in Ancestors(st, cur) :
                  resolve_from(r.st, id, symbol.name) = resolve_from(st, id, symbol.name)

\* C24: define of a name that the current scope holds returns an error and
\* changes nothing of the table; define of a name that the current scope does
\* not hold, also one an ancestor scope holds, succeeds: resolve from the
\* current scope then returns the new symbol, every other scope is unchanged
\* and resolve from an ancestor returns what it returned before
C24_DefineAndResolve ==
    pc = "declaring"
        => \A name \in DeclNames, level \in 0 .. MaxScopes :
              \A kind \in DeclKinds(level) \cup {Constant(7)} :
                 DefineAsClaimed(symbol_table, Symbol(name, kind))

\* the inner scope is current: a is declared in both scopes as different
\* symbols, a second declaration of a in one of them was refused, resolve
\* returns the inner symbol and resolve from the root the outer one
C24_Witness ==
    /\ pc = "declaring"
    /\ symbol_table.current_scope_id = 1
    /\ errors = <<"Symbol 'a' already defined in current scope">>
    /\ resolve(symbol_table, "a") = Symbol("a", Variable(1, 3))
    /\ resolve_from(symbol_table, 0, "a") = Symbol("a", Procedure(0, 0))
    /\ resolve(symbol_table, "c") = Symbol("c", Variable(0, 3))

(***************************************************************************)
(* Steps of a VM that is not running                                       *)
(***************************************************************************)
\* C25: a call of step while the status is Halted, WaitingForInput or Error
\* changes nothing of the VM; so the status stays Halted or the same Error
\* once it is reached, and WaitingForInput is left only for Running, by the
\* driver that supplies a value
C25_StepOnlyWhenRunning ==
    /\ [][IsStep /\ state # Running => UNCHANGED vmvars]_vars
    /\ [][state = Halted \/ IsError(state) => state' = state]_vars
    /\ [][state = WaitingForInput /\ state' # state
            => state' = Running /\ ~IsStep /\ Len(input_queue') = Len(input_queue) + 1]_vars

\* the file OPR 0 RET halted at its first step: step stays callable and the
\* counter stays at 1
C25_Witness ==
    /\ code = <<Instruction("OPR", 0, RET)>>
    /\ state = Halted
    /\ instruction_count = 1
    /\ p = 0


(***************************************************************************)
(* The static chain of compiled programs (SpecCompile)                     *)
(***************************************************************************)
\* the static nesting level of the block entered at e, 0 for the main block
RECURSIVE Depth(_)
Depth(e) == IF e = 0 THEN 0 ELSE 1 + Depth(Encloser(e))

\* the block l levels out of the block entered at e
RECURSIVE Outer(_, _)
Outer(e, l) == IF l = 0 THEN e ELSE Outer(Encloser(e), l - 1)

\* the block that is executing: the one the newest active frame entered
CurrentEntry == EntryOf(Len(frames))

\* the words INT reserves for a frame of the block entered at e
FrameWords(e) == code[code[e + 1].a + 1].a

\* following static links from B reaches base 0 after exactly n hops
ChainReachesZero(n) ==
    /\ base(stack, b, n) = 0
    /\ \A j \in 0 .. (n - 1) : base(stack, b, j) # 0

\* the newest active frame of the block entered at e, 0 for the initial frame
NewestFrameOf(e) ==
    LET ks == {k \in 0 .. Len(frames) : EntryOf(k) = e} IN
    CHOOSE k \in ks : \A k1 \in ks : k1 <= k

\* LOD, STO or RED L A addresses a word of the newest active frame of the
\* block L levels out: a local of the frame or a parameter below its base
VariableReached(ins) ==
    LET decl == Outer(CurrentEntry, ins.l)
        bb == base(stack, b, ins.l)
    IN /\ \E k \in 0 .. Len(frames) : EntryOf(k) = decl
       /\ bb = BaseOf(NewestFrameOf(decl))
       /\ IF ins.a < 0
          THEN decl # 0 /\ -ins.a <= ParamCount(decl)
          ELSE ins.a >= 3 /\ ins.a < FrameWords(decl)

\* C26: while a compiled program runs, following static links from B reaches
\* frame base 0 in exactly as many hops as the nesting level of the executing
\* procedure, and a fetched LOD, STO or RED with level difference L addresses
\* the newest active frame of the block that declares its variable
C26_StaticChain ==
    (pc = "run" /\ state \in {Running, WaitingForInput}) =>
        /\ ChainReachesZero(Depth(CurrentEntry))
        /\ (Fetching /\ Next_i.f \in {"LOD", "STO", "RED"}) => VariableReached(Next_i)


(***************************************************************************)
(* The stack height of generated code (SpecCompile)                        *)
(***************************************************************************)
\* The points of a construct are the pairs <<k, d>> of an index k of the
\* vector where the code of a statement, an expression or a condition starts
\* or has ended, and the height d of T above B the claim gives it there: a
\* statement starts and ends on the words INT reserved, an expression and a
\* condition end one word above their start.
RECURSIVE ExprPoints(_, _, _)
ExprPoints(e, at, d) ==
    {<<at, d>>, <<at + ExprLen(e), d + 1>>}
    \cup CASE e.kind = "Binary" ->
                ExprPoints(e.left, at, d)
                \cup ExprPoints(e.right, at + ExprLen(e.left), d + 1)
           [] e.kind = "Unary" -> ExprPoints(e.expr, at, d)
           [] OTHER -> {}

CondPoints(c, at, d) ==
    {<<at, d>>, <<at + CondLen(c), d + 1>>}
    \cup IF c.kind = "Odd" THEN ExprPoints(c.expr, at, d)
         ELSE ExprPoints(c.left, at, d)
              \cup ExprPoints(c.right, at + ExprLen(c.left), d + 1)

\* the expressions of a Call (each stays on the stack: grow = 1, extra = 0)
\* and of a Write (each is popped by its WRT: grow = 0, extra = 1)
RECURSIVE ExprsPoints(_, _, _, _, _)
ExprsPoints(es, at, d, extra, grow) ==
    IF es = <<>> THEN {}
    ELSE ExprPoints(Head(es), at, d)
         \cup ExprsPoints(Tail(es), at + ExprLen(Head(es)) + extra, d + grow, extra, grow)

RECURSIVE StmtPoints(_, _, _)
RECURSIVE StmtsPoints(_, _, _)
StmtPoints(st, at, w) ==
    {<<at, w>>, <<at + StmtLen(st), w>>}
    \cup CASE st.kind = "Assignment" -> ExprPoints(st.expr, at, w)
           [] st.kind = "Call" -> ExprsPoints(st.args, at, w, 0, 1)
           [] st.kind = "BeginEnd" -> StmtsPoints(st.statements, at, w)
           [] st.kind = "If" ->
                LET jpc == at + CondLen(st.condition)
                    then_end == jpc + 1 + StmtLen(st.then_stmt)
                IN CondPoints(st.condition, at, w)
                   \cup StmtPoints(st.then_stmt, jpc + 1, w)
                   \cup IF st.else_stmt = <<>> THEN {}
                        ELSE StmtPoints(st.else_stmt[1], then_end + 1, w)
           [] st.kind = "While" ->
                CondPoints(st.condition, at, w)
                \cup StmtPoints(st.body, at + CondLen(st.condition) + 1, w)
           [] st.kind = "Write" -> ExprsPoints(st.exprs, at, w, 1, 0)
           [] OTHER -> {}

StmtsPoints(ss, at, w) ==
    IF ss = <<>> THEN {}
    ELSE StmtPoints(Head(ss), at, w) \cup StmtsPoints(Tail(ss), at + StmtLen(Head(ss)), w)

\* the points of the block whose code starts at index at, and of its
\* procedures: the statement of a block runs on the 3 + |vars| words of its INT
RECURSIVE BlockPoints(_, _)
RECURSIVE ProcsPoints(_, _)
BlockPoints(blk, at) ==
    StmtPoints(blk.statement, at + 1 + ProcsLen(blk.procedures) + 1, 3 + Len(blk.vars))
    \cup ProcsPoints(blk.procedures, at + 1)

ProcsPoints(ps, at) ==
    IF ps = <<>> THEN {}
    ELSE BlockPoints(Head(ps).block, at)
         \cup ProcsPoints(Tail(ps), at + BlockLen(Head(ps).block) + 1)

\* C27: the code generated for a statement leaves T where it was before the
\* statement, and the code generated for an expression or a condition leaves
\* T one higher: whenever a compiled program is at the start or just past the
\* end of such a sequence, T is at the height its point gives above the base
\* of the newest active frame
C27_StackNeutral ==
    (pc = "run" /\ state \in {Running, WaitingForInput}) =>
        \A pt \in BlockPoints(program.block, 0) :
            pt[1] = p => t = BaseOf(Len(frames)) + pt[2]


(***************************************************************************)
(* optimize applied to instruction vectors with jumps (SpecJumps)          *)
(***************************************************************************)
\* the longest vector
MaxJumpLen == 3

\* vectors of jumps to every index of the vector and to its end, with an
\* instruction that is no jump
JumpInstr ==
    {Instruction("JMP", 0, a) : a \in 0 .. MaxJumpLen}
    \cup {Instruction("JPC", 0, 0), Instruction("LIT", 0, 1)}

JumpVectors == UNION {[1 .. n -> JumpInstr] : n \in 1 .. MaxJumpLen}

InitJumps ==
    /\ \E c \in JumpVectors : SetVMInit(c)
    /\ program = NoProgram
    /\ errors = <<>>
    /\ gen_error = ""
    /\ pc = "generated"
    /\ fed = <<>>
    /\ got = <<>>
    /\ frames = <<>>
    /\ entries = <<>>
    /\ NoFiles

\* optimize(code): the call returns the optimized vector, panics, or stays in
\* its loop
OptimizeVector ==
    /\ pc = "generated"
    /\ LET r == optimize(code) IN
         /\ pc' = CASE r.status = "ok" -> "optimized"
                    [] r.status = "panic" -> "optimize failed"
                    [] OTHER -> "optimizing"
         /\ code' = r.code
    /\ UNCHANGED <<stack, p, b, t, i, output, input_queue, state, instruction_count,
                   program, errors, gen_error, fed, got, frames, entries, filevars>>

NextJumps == OptimizeVector

SpecJumps == InitJumps /\ [][NextJumps]_vars

\* C29: optimize returns for every instruction vector, one with a JMP to
\* itself or with JMPs that target each other included: its loop reaches a
\* pass that reports no change
C29_OptimizeTerminates == pc # "optimizing"


(***************************************************************************)
(* The scope of parameter names in the one-pass parser (SpecParse)         *)
(***************************************************************************)
\* the source uses the name in the block of a procedure declared after the
\* procedure proc, and the name is declared nowhere but as a parameter
UsedInLaterProcedure(text, name, proc) ==
    \E h, j, k \in 1 .. Len(text) :
        /\ h < j /\ j < k
        /\ text[h] = "procedure" /\ text[h + 1] = proc
        /\ text[j] = "procedure" /\ text[j + 1] # proc
        /\ text[k] = name
        /\ \A d \in 2 .. Len(text) :
              text[d] = name /\ d # k => h < d /\ d < j

\* C30: the parameter names of a procedure do not resolve after its
\* declaration: a source that uses the parameter a of p in the block of the
\* later procedure q, where no a is declared, is not compiled
C30_ParamsScoped ==
    pc = "returned" => ~UsedInLaterProcedure(source, "a", "p")

=============================================================================
